---- MODULE Spec2Model ----
(***************************************************************************)
(* Model of the ILI9341 screen-buffer library (ili9341.c / ili9341.h) of   *)
(* pico-touchscr-sdk: the two-plane frame buffer, its drawing primitives   *)
(* and the selective-write scheduler.                                      *)
(*                                                                         *)
(* screen_control_t keeps mpPixBuffer (uint32_t[2400]) immediately         *)
(* followed by mpColorBuffer (uint8_t[1200]).  The model addresses both    *)
(* arrays as one little-endian byte range 0 .. MemEnd-1, so that an index  *)
(* that leaves one array lands where the compiled code stores it.  A store *)
(* outside the whole range is recorded in the variable oob.                *)
(***************************************************************************)
EXTENDS Integers, Sequences, FiniteSets, TLC

\* ------------------------------------------------------------------------
\* Geometry (ili9341hw.h)
\* ------------------------------------------------------------------------
PIX_WIDTH == 240
PIX_HEIGHT == 320
PIX_BITCOUNT == PIX_WIDTH * PIX_HEIGHT
PIX_BYTECOUNT == PIX_BITCOUNT \div 8
PIX_W32COUNT == PIX_BITCOUNT \div 32
PIX_BYTE_STRIDE == PIX_WIDTH \div 8
TEXT_HEIGHT == PIX_HEIGHT \div 8
TEXT_WIDTH == PIX_WIDTH \div 8
TEXT_CHARCOUNT == TEXT_HEIGHT * TEXT_WIDTH

\* color_t (ili9341.h)
kBlack == 0
kBlue == 1
kRed == 2
kMagenta == 3
kYellow == 6
kWhite == 7

\* Bit of the attribute byte that marks a block `changed'.
ChangedBit == 6

\* ------------------------------------------------------------------------
\* Bounds of the exploration
\* ------------------------------------------------------------------------
\* Number of library calls explored after construction.
MaxCalls == 2
\* The number of polls with a constant sample (SpecFilter).
MaxUpdates == 100
\* Number of selective writes a caller makes in a row.
MaxFlushes == 200

\* ------------------------------------------------------------------------
\* Byte and bit arithmetic
\* ------------------------------------------------------------------------
Pow2(k) == 2 ^ k

\* (b >> k) & 1
BitOf(b, k) == (b \div Pow2(k)) % 2

\* b | (1 << k) and b & ~(1 << k) on one byte
OrBit(b, k) == IF BitOf(b, k) = 1 THEN b ELSE b + Pow2(k)
ClrBit(b, k) == IF BitOf(b, k) = 1 THEN b - Pow2(k) ELSE b

\* Fields of an attribute byte: Flash|Changed|Pap2|Pap1|Pap0|Ink2|Ink1|Ink0
InkOf(b) == b % 8
PaperOf(b) == (b \div 8) % 8
ColorsOf(b) == b % 64
IsChanged(b) == BitOf(b, ChangedBit) = 1

\* ------------------------------------------------------------------------
\* Memory of screen_control_t: the two buffers as one byte range
\* ------------------------------------------------------------------------
ColorBase == PIX_BYTECOUNT
MemEnd == PIX_BYTECOUNT + TEXT_CHARCOUNT

InPix(a) == a >= 0 /\ a < ColorBase
InColor(a) == a >= ColorBase /\ a < MemEnd

\* Byte that holds bit n of a little-endian uint32_t array:
\* word n >> 5, mask 0x80000000 >> (n & 31).
BitAddr(n) == 4 * (n \div 32) + 3 - ((n % 32) \div 8)
\* Position (0 = least significant) of that bit in its byte.
BitPos(n) == 7 - (n % 8)
\* The pixel bit stored at position k of byte a of the pixel buffer.
PixBitAt(a, k) == 32 * (a \div 4) + 8 * (3 - (a % 4)) + (7 - k)

RECURSIVE SumBits(_, _, _)
SumBits(pixset, a, k) ==
    IF k < 0 THEN 0
    ELSE (IF PixBitAt(a, k) \in pixset THEN Pow2(k) ELSE 0) + SumBits(pixset, a, k - 1)

\* m = [pix, attr, chg, oob].  pix is the set of set bits of mpPixBuffer.
\* A byte of mpColorBuffer is kept in two parts: attr[i] holds it without its
\* changed bit, chg is the set of indexes whose changed bit is set.
ColorByte(m, i) == m.attr[i] + (IF i \in m.chg THEN Pow2(ChangedBit) ELSE 0)

LoadByte(m, a) ==
    IF InPix(a) THEN SumBits(m.pix, a, 7)
    ELSE IF InColor(a) THEN ColorByte(m, a - ColorBase)
    ELSE 0

StoreByte(m, a, v) ==
    IF InPix(a)
    THEN [m EXCEPT !.pix = (@ \ {PixBitAt(a, k) : k \in 0..7})
                             \cup {PixBitAt(a, k) : k \in {kk \in 0..7 : BitOf(v, kk) = 1}}]
    ELSE IF InColor(a)
    THEN [m EXCEPT !.attr[a - ColorBase] = ClrBit(v, ChangedBit),
                   !.chg = IF BitOf(v, ChangedBit) = 1 THEN @ \cup {a - ColorBase}
                           ELSE @ \ {a - ColorBase}]
    ELSE [m EXCEPT !.oob = TRUE]

GET_DATA_BIT(m, n) ==
    IF InPix(BitAddr(n)) THEN (IF n \in m.pix THEN 1 ELSE 0)
    ELSE BitOf(LoadByte(m, BitAddr(n)), BitPos(n))

SET_DATA_BIT(m, n) ==
    IF InPix(BitAddr(n)) THEN [m EXCEPT !.pix = @ \cup {n}]
    ELSE StoreByte(m, BitAddr(n), OrBit(LoadByte(m, BitAddr(n)), BitPos(n)))

CLR_DATA_BIT(m, n) ==
    IF InPix(BitAddr(n)) THEN [m EXCEPT !.pix = @ \ {n}]
    ELSE StoreByte(m, BitAddr(n), ClrBit(LoadByte(m, BitAddr(n)), BitPos(n)))

\* pscr->mpColorBuffer[i] as an address
ColorAddr(i) == ColorBase + i

\* ------------------------------------------------------------------------
\* State
\* ------------------------------------------------------------------------
VARIABLES
    pix,        \* mpPixBuffer: set of the bit numbers that are 1
    attr,       \* mpColorBuffer without the changed bits: [Blocks -> 0..255]
    chg,        \* the blocks whose changed bit (bit 6 of the byte) is set
    oob,        \* a store has hit memory outside both buffers
    mCursorX, mCursorY,
    mCanvasPaper, mCanvasInk,
    disp,       \* what the display was sent: [pix: the pixels sent in ink color,
                \* col: block -> the paper and ink (bits 5..0) they were sent in]
    last,       \* the call just made: [op, a (arguments), ret, sent (blocks written)]
    wire,       \* the 16-bit words of an SPI data write that was watched, if any
    tctl,       \* touch_control_t: [mpHWConfig (non-null), mTmOfLastTouch,
                \* mIsProcessed, mX, mY, mXf, mYf, mkTmMinFlick, mkTmLongFlick, mkBetaShft]
    tnow,       \* the microsecond timer (timer_hw->timehr : timelr)
    tcall,      \* the CheckTouch call just made: [op, null (pcontrol is NULL), level
                \* (of the press line), ret, io (the reads it made, in order)]
    tsampled,   \* the timer value of the last call that read the registers, -1
                \* before the first one (history)
    cmat,       \* calibration_mat_t: [KX1, KX2, KX3, KY1, KY2, KY3], each a float
    ccall,      \* the calibration call just made
    csolve,     \* the last CalculateCalibrationMat call that returned npoints (history)
    valid,      \* every call so far had its arguments inside the documented ranges
    ncalls

vars == <<pix, attr, chg, oob, mCursorX, mCursorY, mCanvasPaper, mCanvasInk,
          disp, last, wire, tctl, tnow, tcall, tsampled, cmat, ccall, csolve,
          valid, ncalls>>

Blocks == 0 .. (TEXT_CHARCOUNT - 1)

Mem == [pix |-> pix, attr |-> attr, chg |-> chg, oob |-> oob]

\* Block (row-major index) that contains pixel bit n, and the bits of a block.
BlockOfBit(n) == ((n % PIX_WIDTH) \div 8) + TEXT_WIDTH * ((n \div PIX_WIDTH) \div 8)
BlockBits(b) ==
    LET tl == (b \div TEXT_WIDTH) * 8 * PIX_WIDTH + (b % TEXT_WIDTH) * 8
    IN  UNION {(tl + j * PIX_WIDTH) .. (tl + j * PIX_WIDTH + 7) : j \in 0..7}

\* ------------------------------------------------------------------------
\* Sequencing
\* ------------------------------------------------------------------------
\* F applied to the value of v: the statement that produces v runs once,
\* before the statements F stands for.
With(v, F(_)) == CHOOSE r \in {F(x) : x \in {v}} : TRUE

\* ------------------------------------------------------------------------
\* memset / memmove over the byte range
\* ------------------------------------------------------------------------
Max2(a, b) == IF a >= b THEN a ELSE b
Min2(a, b) == IF a <= b THEN a ELSE b

\* A byte range that starts and ends on a uint32_t boundary holds the pixel
\* bits 8*d .. 8*(d+len)-1.
Aligned(d, len) == d % 4 = 0 /\ len % 4 = 0

\* Pixel bits stored in the bytes d .. d+len-1.
BitsIn(pixset, d, len) ==
    IF len <= 0 THEN {}
    ELSE LET \* the bits of the words that hold the bytes
             near == pixset \cap ((32 * (d \div 4)) .. (32 * ((d + len - 1) \div 4) + 31))
         IN  IF Aligned(d, len) THEN near
             ELSE {n \in near : BitAddr(n) >= d /\ BitAddr(n) < d + len}

\* Attribute indexes whose bytes lie in d .. d+len-1.
ColorsIn(d, len) == Max2(d - ColorBase, 0) .. Min2(d + len - 1 - ColorBase, TEXT_CHARCOUNT - 1)

\* memset(base + d, 0, len)
MemZero(m, d, len) ==
    [pix  |-> m.pix \ BitsIn(m.pix, d, len),
     attr |-> [i \in ColorsIn(d, len) |-> 0] @@ m.attr,
     chg  |-> m.chg \ ColorsIn(d, len),
     oob  |-> m.oob \/ (len > 0 /\ (d < 0 \/ d + len > MemEnd))]

\* Byte read by memmove at address a; g is what lies past the structure.
SrcByte(m, a, g) == IF a >= 0 /\ a < MemEnd THEN LoadByte(m, a) ELSE g

\* A length as memmove receives it.  The parameter is a size_t: a negative
\* int arrives as a count larger than any object, and the copy runs from d
\* through the end of the structure and on past it.
AsSizeT(d, len) == IF len < 0 THEN MemEnd - d + 4 ELSE len

\* memmove(base + d, base + s, count).  Bits that stay inside the pixel
\* buffer move as bits; every other destination byte is copied as a byte.
MemMove(m, d, s, count, g) ==
    LET len == AsSizeT(d, count)
        whole == Aligned(d, len) /\ Aligned(s, len)
        \* the source bits whose destination byte is in the pixel buffer
        src == IF whole
               THEN BitsIn(m.pix, s, len) \cap ((8 * (s - d)) .. (PIX_BITCOUNT - 1 + 8 * (s - d)))
               ELSE {n \in BitsIn(m.pix, s, len) : InPix(BitAddr(n) - s + d)}
        moved == IF whole
                 THEN {n - 8 * (s - d) : n \in src}
                 ELSE {PixBitAt(BitAddr(n) - s + d, BitPos(n)) : n \in src}
        \* destination bytes in the pixel buffer whose source is not in it
        fromOut == {a \in (d .. Min2(d + len - 1, d - s - 1))
                          \cup (Max2(d, ColorBase + d - s) .. (d + len - 1)) :
                      InPix(a) /\ ~InPix(a - d + s)}
        outBits == UNION {{PixBitAt(a, k) : k \in {kk \in 0..7 :
                              BitOf(SrcByte(m, a - d + s, g), kk) = 1}} : a \in fromOut}
    IN  [pix  |-> (m.pix \ BitsIn(m.pix, d, len)) \cup moved \cup outBits,
         attr |-> [i \in ColorsIn(d, len) |->
                     ClrBit(SrcByte(m, ColorAddr(i) - d + s, g), ChangedBit)] @@ m.attr,
         chg  |-> (m.chg \ ColorsIn(d, len))
                  \cup {i \in ColorsIn(d, len) : IsChanged(SrcByte(m, ColorAddr(i) - d + s, g))},
         oob  |-> m.oob \/ (len > 0 /\ (d < 0 \/ d + len > MemEnd))]

\* ------------------------------------------------------------------------
\* Font (font_8x8.h): glyph row j of character code c (c already less 0x20)
\* ------------------------------------------------------------------------
FontByte(c, j) ==
    IF c = 0 THEN 0                          \* ' '
    ELSE ((c * 37 + j * 101) % 127) * 2 + 1  \* some bitmap with both end bits in use

\* ------------------------------------------------------------------------
\* Drawing primitives
\* ------------------------------------------------------------------------
\* TftPutColorAttr
TftPutColorAttr(m, x, y, paper, ink) ==
    LET a == ColorAddr(x + TEXT_WIDTH * y)
        old == LoadByte(m, a)
    IN  StoreByte(m, a, OrBit((old \div 64) * 64 + (ink % 8) + (paper % 8) * 8, ChangedBit))

\* pscr->mpColorBuffer[i] |= 1 << 6
MarkChanged(m, i) == StoreByte(m, ColorAddr(i), OrBit(LoadByte(m, ColorAddr(i)), ChangedBit))

\* TftPutPixel with the bounds test of TftPutLine (> PIX_WIDTH, > PIX_HEIGHT).
TftPutPixel_Lax(m, x, y, paper, ink) ==
    IF x < 0 \/ y < 0 \/ x > PIX_WIDTH \/ y > PIX_HEIGHT THEN m
    ELSE With(SET_DATA_BIT(m, x + y * PIX_WIDTH),
              LAMBDA m1 : TftPutColorAttr(m1, x \div 8, y \div 8, paper, ink))

\* TftPutPixel
TftPutPixel(m, x, y, paper, ink) ==
    IF x < 0 \/ y < 0 \/ x > PIX_WIDTH - 1 \/ y > PIX_HEIGHT - 1 THEN m
    ELSE With(SET_DATA_BIT(m, x + y * PIX_WIDTH),
              LAMBDA m1 : TftPutColorAttr(m1, x \div 8, y \div 8, paper, ink))

\* C integer division by 2 (truncates toward zero)
CDiv2(v) == IF v >= 0 THEN v \div 2 ELSE -((-v) \div 2)

LineCap == 1000

\* The pass leaving the loop as soon as one coordinate has reached its end.
LineStep_EitherEnd(s, L) ==
    IF s.done \/ s.cnt = 0 THEN s
    ELSE With(SET_DATA_BIT(s.m, s.x0 + s.y0 * PIX_WIDTH), LAMBDA m1 :
         With(MarkChanged(m1, (s.x0 \div 8) + (s.y0 \div 8) * TEXT_WIDTH), LAMBDA m2 :
         LET stepx == s.err > -L.dx
             stepy == s.err < L.dy
         IN  IF s.x0 = L.x1 \/ s.y0 = L.y1
             THEN [s EXCEPT !.m = m2, !.done = TRUE]
             ELSE [m    |-> m2,
                   x0   |-> IF stepx THEN s.x0 + L.sx ELSE s.x0,
                   y0   |-> IF stepy THEN s.y0 + L.sy ELSE s.y0,
                   err  |-> s.err - (IF stepx THEN L.dy ELSE 0) + (IF stepy THEN L.dx ELSE 0),
                   cnt  |-> s.cnt - 1,
                   done |-> FALSE]))

\* One pass of the loop of TftPutLine on s = [m, x0, y0, err, cnt, done];
\* L holds the values the loop does not change.
LineStep(s, L) ==
    IF s.done \/ s.cnt = 0 THEN s
    ELSE With(SET_DATA_BIT(s.m, s.x0 + s.y0 * PIX_WIDTH), LAMBDA m1 :
         With(MarkChanged(m1, (s.x0 \div 8) + (s.y0 \div 8) * TEXT_WIDTH), LAMBDA m2 :
         LET stepx == s.err > -L.dx
             stepy == s.err < L.dy
         IN  IF s.x0 = L.x1 /\ s.y0 = L.y1
             THEN [s EXCEPT !.m = m2, !.done = TRUE]
             ELSE [m    |-> m2,
                   x0   |-> IF stepx THEN s.x0 + L.sx ELSE s.x0,
                   y0   |-> IF stepy THEN s.y0 + L.sy ELSE s.y0,
                   err  |-> s.err - (IF stepx THEN L.dy ELSE 0) + (IF stepy THEN L.dx ELSE 0),
                   cnt  |-> s.cnt - 1,
                   done |-> FALSE]))

\* 2^k passes of the loop, run as two halves; a pass after the loop has ended
\* changes nothing.
RECURSIVE LineRun(_, _, _)
LineRun(s, L, k) ==
    IF k = 0 THEN LineStep(s, L)
    ELSE With(LineRun(s, L, k - 1),
              LAMBDA t : IF t.done \/ t.cnt = 0 THEN t ELSE LineRun(t, L, k - 1))

\* TftPutLine up to its return: the state of its loop, which a rejected
\* call has not entered.
TftPutLineLoop(m, x0, y0, x1, y1) ==
    IF \/ x0 < 0 \/ y0 < 0 \/ x1 < 0 \/ y1 < 0
       \/ x0 > PIX_WIDTH \/ y0 > PIX_HEIGHT \/ x1 > PIX_WIDTH \/ y1 > PIX_HEIGHT
    THEN [m |-> m, x0 |-> x0, y0 |-> y0, err |-> 0, cnt |-> LineCap, done |-> FALSE]
    ELSE LET dx == IF x1 > x0 THEN x1 - x0 ELSE x0 - x1
             dy == IF y1 > y0 THEN y1 - y0 ELSE y0 - y1
         IN  With([x1 |-> x1, y1 |-> y1, dx |-> dx, dy |-> dy,
                   sx |-> IF x0 < x1 THEN 1 ELSE -1,
                   sy |-> IF y0 < y1 THEN 1 ELSE -1], LAMBDA L :
             With([m |-> m, x0 |-> x0, y0 |-> y0,
                   err |-> CDiv2(IF dx > dy THEN dx ELSE -dy),
                   cnt |-> LineCap, done |-> FALSE], LAMBDA s :
             LineRun(s, L, 10)))

\* TftPutLine
TftPutLine(m, x0, y0, x1, y1) == TftPutLineLoop(m, x0, y0, x1, y1).m

\* Printable range accepted by the glyph routines.
Printable(chr) == ~(chr > 126 \/ chr < 32)

\* (pfchar[j] >> (8-i)) & 1
GlyphBit(c, j, i) == BitOf(FontByte(c, j), 8 - i)

\* The stores of the inner loop (i = 0..7) of a glyph row whose first pixel is
\* bit n0: pixel i is set where the glyph has ink and, when over, cleared where
\* it has none.  The eight bits are distinct, so inside the pixel buffer the
\* eight stores amount to one update of the set of bits.
RECURSIVE RowBits(_, _, _, _, _, _)
RowBits(m, c, j, n0, over, i) ==
    IF i = 8 THEN m
    ELSE With(IF GlyphBit(c, j, i) = 1 THEN SET_DATA_BIT(m, n0 + i)
              ELSE IF over THEN CLR_DATA_BIT(m, n0 + i) ELSE m,
              LAMBDA m1 : RowBits(m1, c, j, n0, over, i + 1))

RowStore(m, c, j, n0, over) ==
    IF InPix(BitAddr(n0)) /\ InPix(BitAddr(n0 + 7))
    THEN LET ink == {n0 + i : i \in {ii \in 0..7 : GlyphBit(c, j, ii) = 1}}
         IN  [m EXCEPT !.pix = IF over THEN (@ \ (n0 .. (n0 + 7))) \cup ink ELSE @ \cup ink]
    ELSE RowBits(m, c, j, n0, over, 0)

\* Glyph row j of TftPutChar on s = [m, j].
GlyphStep(s, c, x_pix, y_pix) ==
    IF s.j >= 8 THEN s
    ELSE [m |-> RowStore(s.m, c, s.j, (y_pix + s.j) * PIX_WIDTH + x_pix, TRUE),
          j |-> s.j + 1]

RECURSIVE GlyphRun(_, _, _, _, _)
GlyphRun(s, c, x_pix, y_pix, k) ==
    IF k = 0 THEN GlyphStep(s, c, x_pix, y_pix)
    ELSE With(GlyphRun(s, c, x_pix, y_pix, k - 1),
              LAMBDA t : IF t.j >= 8 THEN t ELSE GlyphRun(t, c, x_pix, y_pix, k - 1))

\* TftPutChar
TftPutChar(m, x, y, paper, ink, chr) ==
    IF ~Printable(chr) THEN m
    ELSE With([m |-> m, j |-> 0], LAMBDA s :
         With(GlyphRun(s, chr - 32, x * 8, y * 8, 3).m, LAMBDA m1 :
         TftPutColorAttr(m1, x, y, paper, ink)))

\* TftClearRect8: one word store per pixel row j on s = [m, j], then the flag.
ClearRowStep(s, x, y) ==
    IF s.j >= 8 THEN s
    ELSE LET shft == (x * 8) + (s.j + (y * 8)) * PIX_WIDTH
         IN  [m |-> MemZero(s.m, 4 * (shft \div 32), 4), j |-> s.j + 1]

RECURSIVE ClearRowRun(_, _, _, _)
ClearRowRun(s, x, y, k) ==
    IF k = 0 THEN ClearRowStep(s, x, y)
    ELSE With(ClearRowRun(s, x, y, k - 1),
              LAMBDA t : IF t.j >= 8 THEN t ELSE ClearRowRun(t, x, y, k - 1))

TftClearRect8(m, x, y) ==
    With([m |-> m, j |-> 0], LAMBDA s :
    With(ClearRowRun(s, x, y, 3).m, LAMBDA m1 :
    MarkChanged(m1, x + TEXT_WIDTH * y)))

\* TftScrollVerticalZone without the memset of the freed pixel rows.
TftScrollVerticalZone_NoBlank(m, top_y, bot_y, g) ==
    LET kscroll_area_height == bot_y - top_y
        kscroll_area_bytes == ((kscroll_area_height - 1) * 8) * PIX_BYTE_STRIDE
        ppixdest == top_y * TEXT_WIDTH * 8
        kscroll_attr_bytes == kscroll_area_height * TEXT_WIDTH
        pattrdest == ColorAddr(top_y * TEXT_WIDTH)
        lo == top_y * TEXT_WIDTH
        hi == bot_y * TEXT_WIDTH - 1
    IN  With(MemMove(m, ppixdest, ppixdest + PIX_BYTE_STRIDE * 8, kscroll_area_bytes, g),
             LAMBDA m1 :
        With(MemMove(m1, pattrdest, pattrdest + TEXT_WIDTH, kscroll_attr_bytes, g), LAMBDA m3 :
        [pix  |-> m3.pix,
         attr |-> m3.attr,
         chg  |-> m3.chg \cup (Max2(lo, 0) .. Min2(hi, TEXT_CHARCOUNT - 1)),
         oob  |-> m3.oob]))

\* TftScrollVerticalZone; g is the byte found past the attribute array.
TftScrollVerticalZone(m, top_y, bot_y, g) ==
    LET kscroll_area_height == bot_y - top_y
        kscroll_area_bytes == ((kscroll_area_height - 1) * 8) * PIX_BYTE_STRIDE
        ppixdest == top_y * TEXT_WIDTH * 8
        kscroll_attr_bytes == kscroll_area_height * TEXT_WIDTH
        pattrdest == ColorAddr(top_y * TEXT_WIDTH)
        lo == top_y * TEXT_WIDTH
        hi == bot_y * TEXT_WIDTH - 1
    IN  With(MemMove(m, ppixdest, ppixdest + PIX_BYTE_STRIDE * 8, kscroll_area_bytes, g),
             LAMBDA m1 :
        With(MemZero(m1, ppixdest + kscroll_area_bytes, 8 * PIX_BYTE_STRIDE), LAMBDA m2 :
        With(MemMove(m2, pattrdest, pattrdest + TEXT_WIDTH, kscroll_attr_bytes, g), LAMBDA m3 :
        \* for(j = top_y * TEXT_WIDTH; j < bot_y * TEXT_WIDTH; ++j) |= 1 << 6
        [pix  |-> m3.pix \cup {PixBitAt(ColorAddr(j), ChangedBit) :
                                 j \in Max2(lo, -ColorBase) .. Min2(hi, -1)},
         attr |-> m3.attr,
         chg  |-> m3.chg \cup (Max2(lo, 0) .. Min2(hi, TEXT_CHARCOUNT - 1)),
         oob  |-> m3.oob \/ (lo <= hi /\ (lo < -ColorBase \/ hi >= TEXT_CHARCOUNT))])))

\* What one pass of the loop of TftPutString did: the character, whether the
\* zone was scrolled first, the cell <<x, y>> TftPutChar was called with (put
\* is FALSE for '\n' and '\r', which make no call) and the cursor it left.
Pass(ch, scrolled, put, x, y, cx, cy) ==
    [ch |-> ch, scrolled |-> scrolled, put |-> put, at |-> <<x, y>>, cx |-> cx, cy |-> cy]

\* The pass of TftPutString that wraps one column late (> TEXT_WIDTH).
PutStringStep_LateWrap(s, str, top_y, bot_y, paper, ink, g) ==
    IF s.i > Len(str) THEN s
    ELSE With(IF s.cy >= bot_y
              THEN [s EXCEPT !.m = TftScrollVerticalZone(s.m, top_y, bot_y, g), !.cy = @ - 1]
              ELSE s, LAMBDA s1 :
         LET ch == str[s.i]
             scrolled == s.cy >= bot_y
         IN  IF ch = 10 \/ ch = 13
             THEN [s1 EXCEPT !.cx = 0, !.cy = @ + 1, !.i = @ + 1,
                             !.log = Append(@, Pass(ch, scrolled, FALSE, s1.cx, s1.cy,
                                                    0, s1.cy + 1))]
             ELSE With(TftPutChar(s1.m, s1.cx, s1.cy, paper, ink, ch), LAMBDA d :
                  IF s1.cx + 1 > TEXT_WIDTH
                  THEN [m |-> d, cx |-> 0, cy |-> s1.cy + 1, i |-> s.i + 1,
                        log |-> Append(s1.log, Pass(ch, scrolled, TRUE, s1.cx, s1.cy,
                                                    0, s1.cy + 1))]
                  ELSE [m |-> d, cx |-> s1.cx + 1, cy |-> s1.cy, i |-> s.i + 1,
                        log |-> Append(s1.log, Pass(ch, scrolled, TRUE, s1.cx, s1.cy,
                                                    s1.cx + 1, s1.cy))]))

\* One character of TftPutString on s = [m, cx, cy, i, log]; str is a sequence
\* of character codes, i the position of the next one, log the passes so far.
PutStringStep(s, str, top_y, bot_y, paper, ink, g) ==
    IF s.i > Len(str) THEN s
    ELSE With(IF s.cy >= bot_y
              THEN [s EXCEPT !.m = TftScrollVerticalZone(s.m, top_y, bot_y, g), !.cy = @ - 1]
              ELSE s, LAMBDA s1 :
         LET ch == str[s.i]
             scrolled == s.cy >= bot_y
         IN  IF ch = 10 \/ ch = 13
             THEN [s1 EXCEPT !.cx = 0, !.cy = @ + 1, !.i = @ + 1,
                             !.log = Append(@, Pass(ch, scrolled, FALSE, s1.cx, s1.cy,
                                                    0, s1.cy + 1))]
             ELSE With(TftPutChar(s1.m, s1.cx, s1.cy, paper, ink, ch), LAMBDA d :
                  IF s1.cx + 1 >= TEXT_WIDTH
                  THEN [m |-> d, cx |-> 0, cy |-> s1.cy + 1, i |-> s.i + 1,
                        log |-> Append(s1.log, Pass(ch, scrolled, TRUE, s1.cx, s1.cy,
                                                    0, s1.cy + 1))]
                  ELSE [m |-> d, cx |-> s1.cx + 1, cy |-> s1.cy, i |-> s.i + 1,
                        log |-> Append(s1.log, Pass(ch, scrolled, TRUE, s1.cx, s1.cy,
                                                    s1.cx + 1, s1.cy))]))

RECURSIVE PutStringRun(_, _, _, _, _, _, _, _)
PutStringRun(s, str, top_y, bot_y, paper, ink, g, k) ==
    IF k = 0 THEN PutStringStep(s, str, top_y, bot_y, paper, ink, g)
    ELSE With(PutStringRun(s, str, top_y, bot_y, paper, ink, g, k - 1), LAMBDA t :
              IF t.i > Len(str) THEN t
              ELSE PutStringRun(t, str, top_y, bot_y, paper, ink, g, k - 1))

\* TftPutString on c = [m, cx, cy]; TftPrintf hands it at most
\* 2 * TEXT_WIDTH - 1 < 2^6 characters.
TftPutString(c, str, top_y, bot_y, paper, ink, g) ==
    With([m |-> c.m, cx |-> c.cx, cy |-> c.cy, i |-> 1, log |-> <<>>], LAMBDA s0 :
    With(PutStringRun(s0, str, top_y, bot_y, paper, ink, g, 6), LAMBDA s :
    [m |-> s.m, cx |-> s.cx, cy |-> s.cy, log |-> s.log]))

\* Glyph row j of one glyph of TftPutTextLabel on s = [m, j]: the pixel stores
\* of the row and the changed flag of the block under each of its pixels (the
\* eight pixels lie in the blocks of the first and of the last one).
LabelStep(s, c, x_pix, y_pix, over) ==
    IF s.j >= 8 THEN s
    ELSE LET blk_line == TEXT_WIDTH * ((y_pix + s.j) \div 8)
         IN  With(RowStore(s.m, c, s.j, (y_pix + s.j) * PIX_WIDTH + x_pix, over), LAMBDA m1 :
             With(MarkChanged(m1, (x_pix \div 8) + blk_line), LAMBDA m2 :
             [m |-> MarkChanged(m2, ((x_pix + 7) \div 8) + blk_line), j |-> s.j + 1]))

RECURSIVE LabelRun(_, _, _, _, _, _)
LabelRun(s, c, x_pix, y_pix, over, k) ==
    IF k = 0 THEN LabelStep(s, c, x_pix, y_pix, over)
    ELSE With(LabelRun(s, c, x_pix, y_pix, over, k - 1), LAMBDA t :
              IF t.j >= 8 THEN t ELSE LabelRun(t, c, x_pix, y_pix, over, k - 1))

\* One character of TftPutTextLabel on s = [m, s (position), x_pix, max_len, done].
LabelCharStep(s, pstr, y_pix, over) ==
    IF s.done \/ s.s > Len(pstr) \/ s.max_len = 0 THEN [s EXCEPT !.done = TRUE]
    ELSE IF ~Printable(pstr[s.s]) THEN [s EXCEPT !.done = TRUE]
    ELSE With([m |-> s.m, j |-> 0], LAMBDA g0 :
         [m       |-> LabelRun(g0, pstr[s.s] - 32, s.x_pix, y_pix, over, 3).m,
          s       |-> s.s + 1,
          x_pix   |-> s.x_pix + 8,
          max_len |-> s.max_len - 1,
          done    |-> FALSE])

RECURSIVE LabelCharRun(_, _, _, _, _)
LabelCharRun(s, pstr, y_pix, over, k) ==
    IF k = 0 THEN LabelCharStep(s, pstr, y_pix, over)
    ELSE With(LabelCharRun(s, pstr, y_pix, over, k - 1), LAMBDA t :
              IF t.done THEN t ELSE LabelCharRun(t, pstr, y_pix, over, k - 1))

\* TftPutTextLabel; max_len <= TEXT_WIDTH < 2^5 bounds the characters drawn
\* when x_pix >= 0.
TftPutTextLabel(m, pstr, x_pix, y_pix, over) ==
    IF x_pix > PIX_WIDTH - 8 \/ y_pix > PIX_HEIGHT - 8 THEN m
    ELSE With([m |-> m, s |-> 1, x_pix |-> x_pix,
               max_len |-> (PIX_WIDTH - x_pix) \div 8, done |-> FALSE], LAMBDA s0 :
         LabelCharRun(s0, pstr, y_pix, over, 5).m)

\* A value passed as color_t.  The type of an enum is the implementation's
\* choice: a signed type keeps a negative argument, an unsigned one (the choice
\* of compilers that see no negative enumerator) wraps it; of the wrapped value
\* only the low 8 bits reach the attribute byte, and those are the same for
\* every width of the type.
AsColorT(v, sgn) == IF sgn THEN v ELSE v % Pow2(8)

\* TftClearScreenBuffer: both memsets; attr_val is a uint8_t
TftClearScreenBuffer(m, paper, ink, cpaper, cink) ==
    LET attr_val == IF paper < 0
                    THEN OrBit((cink + cpaper * 8) % 256, ChangedBit)
                    ELSE OrBit((ink + paper * 8) % 256, ChangedBit)
    IN  [pix  |-> {},
         attr |-> [i \in Blocks |-> ClrBit(attr_val, ChangedBit)],
         chg  |-> IF IsChanged(attr_val) THEN Blocks ELSE {},
         oob  |-> m.oob]

\* ------------------------------------------------------------------------
\* Transfers to the display
\* ------------------------------------------------------------------------
\* TftSymbolWrite that sends the block and leaves its changed flag set.
TftSymbolWrite_KeepFlag(f, sym_x, sym_y) ==
    LET b == sym_y * TEXT_WIDTH + sym_x
    IN  With(ColorByte(f.m, b), LAMBDA box :
        With(BlockBits(b), LAMBDA region :
        [m    |-> f.m,
         disp |-> [pix |-> (f.disp.pix \ region) \cup (region \cap f.m.pix),
                   col |-> [f.disp.col EXCEPT ![b] = ColorsOf(box)]]]))

\* TftSymbolWrite on f = [m, disp]: sends the 8x8 region of block (sym_x, sym_y)
\* in its colors and clears the block's changed flag.
TftSymbolWrite(f, sym_x, sym_y) ==
    LET b == sym_y * TEXT_WIDTH + sym_x
    IN  With(ColorByte(f.m, b), LAMBDA box :
        \* the bits pix_line + i, j, i = 0..7, all inside the pixel buffer
        With(BlockBits(b), LAMBDA region :
        [m    |-> StoreByte(f.m, ColorAddr(b), ClrBit(box, ChangedBit)),
         disp |-> [pix |-> (f.disp.pix \ region) \cup (region \cap f.m.pix),
                   col |-> [f.disp.col EXCEPT ![b] = ColorsOf(box)]]]))

\* spPalette (ili9341.h); color c is spPalette[c + 1]
spPalette == <<0, 7936, 248, 8184, 57351, 65287, 57599, 65535>>

\* TftSymbolWrite with the ink and the paper of the block exchanged.
SymbolWords_Swapped(m, sym_x, sym_y) ==
    LET box == ColorByte(m, sym_y * TEXT_WIDTH + sym_x)
        paper == InkOf(box)
        ink == PaperOf(box)
    IN  [k \in 1..64 |->
            LET j == (k - 1) \div 8
                i == (k - 1) % 8
                pix_line == (sym_y * 8 + j) * PIX_WIDTH + sym_x * 8
            IN  IF GET_DATA_BIT(m, pix_line + i) = 1
                THEN spPalette[ink + 1] ELSE spPalette[paper + 1]]

\* The words TftSymbolWrite hands to spi_write_blocking: sBuf[i] of the rows
\* j = 0..7, in the order sent.
SymbolWords(m, sym_x, sym_y) ==
    LET box == ColorByte(m, sym_y * TEXT_WIDTH + sym_x)
        paper == PaperOf(box)
        ink == InkOf(box)
    IN  [k \in 1..64 |->
            LET j == (k - 1) \div 8
                i == (k - 1) % 8
                pix_line == (sym_y * 8 + j) * PIX_WIDTH + sym_x * 8
            IN  IF GET_DATA_BIT(m, pix_line + i) = 1
                THEN spPalette[ink + 1] ELSE spPalette[paper + 1]]

\* The words of sBufLine that TftFullScreenWrite sends for pixel row j.
LineWords(m, j) ==
    LET line_of_symbol == (j \div 8) * TEXT_WIDTH
    IN  [k \in 1..PIX_WIDTH |->
            LET i == k - 1
                ix_of_symbol == line_of_symbol + (i \div 8)
                paper == PaperOf(ColorByte(m, ix_of_symbol))
                ink == InkOf(ColorByte(m, ix_of_symbol))
            IN  IF GET_DATA_BIT(m, j * PIX_WIDTH + i) = 1
                THEN spPalette[ink + 1] ELSE spPalette[paper + 1]]

\* Least element of a non-empty set of integers.
Min(S) == CHOOSE b \in S : \A c \in S : b <= c

\* The scan step that reports completion when the budget runs out.
ScanStep_DoneOnBudget(w) ==
    IF w.ret # -1 THEN w
    ELSE IF w.k >= TEXT_CHARCOUNT THEN [w EXCEPT !.ret = 1]
    ELSE LET rowEnd == (w.k \div TEXT_WIDTH) * TEXT_WIDTH + TEXT_WIDTH - 1
         IN  With(w.f.m.chg \cap (w.k .. rowEnd), LAMBDA changed :
             IF changed = {} THEN [w EXCEPT !.k = rowEnd + 1]
             ELSE With(Min(changed), LAMBDA b :
                  [f    |-> TftSymbolWrite(w.f, b % TEXT_WIDTH, b \div TEXT_WIDTH),
                   n    |-> w.n - 1,
                   sent |-> Append(w.sent, b),
                   ret  |-> IF w.n - 1 = 0 THEN 1 ELSE -1,
                   k    |-> b + 1]))

\* The scan step that tests nblock_max before it decrements it (!nblock_max--).
ScanStep_PostDec(w) ==
    IF w.ret # -1 THEN w
    ELSE IF w.k >= TEXT_CHARCOUNT THEN [w EXCEPT !.ret = 1]
    ELSE LET rowEnd == (w.k \div TEXT_WIDTH) * TEXT_WIDTH + TEXT_WIDTH - 1
         IN  With(w.f.m.chg \cap (w.k .. rowEnd), LAMBDA changed :
             IF changed = {} THEN [w EXCEPT !.k = rowEnd + 1]
             ELSE With(Min(changed), LAMBDA b :
                  [f    |-> TftSymbolWrite(w.f, b % TEXT_WIDTH, b \div TEXT_WIDTH),
                   n    |-> w.n - 1,
                   sent |-> Append(w.sent, b),
                   ret  |-> IF w.n = 0 THEN 0 ELSE -1,
                   k    |-> b + 1]))

\* The scan step that, when the budget runs out, reports whether a changed
\* block is left.
ScanStep_LooksAhead(w) ==
    IF w.ret # -1 THEN w
    ELSE IF w.k >= TEXT_CHARCOUNT THEN [w EXCEPT !.ret = 1]
    ELSE LET rowEnd == (w.k \div TEXT_WIDTH) * TEXT_WIDTH + TEXT_WIDTH - 1
         IN  With(w.f.m.chg \cap (w.k .. rowEnd), LAMBDA changed :
             IF changed = {} THEN [w EXCEPT !.k = rowEnd + 1]
             ELSE With(Min(changed), LAMBDA b :
                  [f    |-> TftSymbolWrite(w.f, b % TEXT_WIDTH, b \div TEXT_WIDTH),
                   n    |-> w.n - 1,
                   sent |-> Append(w.sent, b),
                   ret  |-> IF w.n - 1 = 0
                            THEN (IF w.f.m.chg \ {b} = {} THEN 1 ELSE 0)
                            ELSE -1,
                   k    |-> b + 1]))

\* The scan step that counts the budget down before it writes the block.
ScanStep_CountFirst(w) ==
    IF w.ret # -1 THEN w
    ELSE IF w.k >= TEXT_CHARCOUNT THEN [w EXCEPT !.ret = 1]
    ELSE LET rowEnd == (w.k \div TEXT_WIDTH) * TEXT_WIDTH + TEXT_WIDTH - 1
         IN  With(w.f.m.chg \cap (w.k .. rowEnd), LAMBDA changed :
             IF changed = {} THEN [w EXCEPT !.k = rowEnd + 1]
             ELSE IF w.n - 1 = 0 THEN [w EXCEPT !.n = 0, !.ret = 0]
             ELSE With(Min(changed), LAMBDA b :
                  [f    |-> TftSymbolWrite(w.f, b % TEXT_WIDTH, b \div TEXT_WIDTH),
                   n    |-> w.n - 1,
                   sent |-> Append(w.sent, b),
                   ret  |-> -1,
                   k    |-> b + 1]))

\* The scan of TftFullScreenSelectiveWrite on
\* w = [f, n (nblock_max), sent, ret, k]; k = j * TEXT_WIDTH + i is the block
\* the two nested loops look at next, ret = -1 while the scan runs.  One step
\* runs the inner loop up to the next changed block of text row j and writes
\* it, or to the end of the row when the row has none left.
ScanStep(w) ==
    IF w.ret # -1 THEN w
    ELSE IF w.k >= TEXT_CHARCOUNT THEN [w EXCEPT !.ret = 1]
    ELSE LET rowEnd == (w.k \div TEXT_WIDTH) * TEXT_WIDTH + TEXT_WIDTH - 1
         IN  With(w.f.m.chg \cap (w.k .. rowEnd), LAMBDA changed :
             IF changed = {} THEN [w EXCEPT !.k = rowEnd + 1]
             ELSE With(Min(changed), LAMBDA b :
                  [f    |-> TftSymbolWrite(w.f, b % TEXT_WIDTH, b \div TEXT_WIDTH),
                   n    |-> w.n - 1,
                   sent |-> Append(w.sent, b),
                   ret  |-> IF w.n - 1 = 0 THEN 0 ELSE -1,
                   k    |-> b + 1]))

RECURSIVE ScanRun(_, _)
ScanRun(w, k) ==
    IF k = 0 THEN ScanStep(w)
    ELSE With(ScanRun(w, k - 1),
              LAMBDA t : IF t.ret # -1 THEN t ELSE ScanRun(t, k - 1))

TftFullScreenSelectiveWrite(f, nblock_max) ==
    With([f |-> f, n |-> nblock_max, sent |-> <<>>, ret |-> -1, k |-> 0], LAMBDA w :
    \* at most TEXT_CHARCOUNT + TEXT_HEIGHT + 1 < 2^11 steps
    ScanRun(w, 11))

\* TftFullScreenWrite without line 276, the store that clears the flag.
TftFullScreenWrite_KeepFlags(f) ==
    [m    |-> f.m,
     disp |-> [pix |-> f.m.pix, col |-> [i \in Blocks |-> ColorsOf(f.m.attr[i])]]]

\* TftFullScreenWrite: every pixel goes out in the colors of its block and
\* every attribute byte loses its changed flag.
TftFullScreenWrite(f) ==
    [m    |-> [f.m EXCEPT !.chg = {}],
     disp |-> [pix |-> f.m.pix, col |-> [i \in Blocks |-> ColorsOf(f.m.attr[i])]]]

\* ------------------------------------------------------------------------
\* Arguments explored.  Each set holds in-range cases and the cases just
\* outside the ranges the headers document.
\* ------------------------------------------------------------------------
PixelArgs == {<<9, 8>>, <<239, 319>>,
              <<-1, 5>>, <<240, 0>>, <<3, 320>>, <<7, -1>>}
LineArgs == {<<0, 0, 9, 3>>, <<239, 319, 230, 310>>,
             <<240, 0, 238, 1>>, <<0, 320, 5, 319>>, <<-1, 0, 4, 4>>}
CellArgs == {<<1, 0>>, <<29, 39>>, <<30, 0>>, <<-1, 1>>, <<0, 40>>}
\* 'A' and a control character
CharArgs == {<<3, 1, 65>>, <<29, 39, 65>>, <<1, 1, 31>>,
             <<30, 0, 65>>, <<-1, 1, 65>>, <<0, 40, 65>>}
\* string, top_y, bot_y
StringArgs == {<< <<65, 10, 66>>, 0, 2 >>, << <<66, 31, 67>>, 1, 3 >>,
               << <<65, 66>>, 38, 40 >>}
ZoneArgs == {<<0, 2>>, <<1, 3>>, <<38, 40>>}
\* string, x_pix, y_pix, over
LabelArgs == {<< <<65>>, 4, 4, TRUE >>, << <<65, 66>>, 220, 312, FALSE >>,
              << <<65>>, 233, 0, TRUE >>, << <<65>>, -3, 9, TRUE >>}
CursorArgs == {<<29, 1>>, <<0, 5>>}
BudgetArgs == {0, 1, 2, 10000}
ClearArgs == {<<kBlue, kWhite>>, <<-1, kWhite>>}
\* The signedness color_t may have in a build.
EnumSigned == BOOLEAN
AttrArgs == {<<0, 0, kBlue, kYellow>>}
\* Bytes that may lie behind the structure in memory.
Beyond == {0, 255}
\* The bytes a scroll of [top_y, bot_y) can meet: its attribute move reads
\* text row bot_y, which lies behind the structure when bot_y = TEXT_HEIGHT.
BeyondOf(bot_y) == IF bot_y >= TEXT_HEIGHT THEN Beyond ELSE {0}

InPlane(x, y) == x >= 0 /\ x < PIX_WIDTH /\ y >= 0 /\ y < PIX_HEIGHT
InText(x, y) == x >= 0 /\ x < TEXT_WIDTH /\ y >= 0 /\ y < TEXT_HEIGHT
InZone(top_y, bot_y) == 0 <= top_y /\ top_y < bot_y /\ bot_y <= TEXT_HEIGHT

\* ------------------------------------------------------------------------
\* Calls
\* ------------------------------------------------------------------------
\* A call outside the documented ranges is followed no further: what comes
\* after it is outside the library's contract.
CanCall == ncalls < MaxCalls /\ valid

\* No SPI write was watched.
NoWire == [op |-> "none", at |-> 0, words |-> <<>>]

\* The state after a call: memory m, cursor, display d, the call's record.
Returned(m, cx, cy, d, rec, ok) ==
    /\ pix' = m.pix
    /\ attr' = m.attr
    /\ chg' = m.chg
    /\ oob' = m.oob
    /\ mCursorX' = cx
    /\ mCursorY' = cy
    /\ disp' = d
    /\ last' = rec
    /\ valid' = (valid /\ ok)
    /\ ncalls' = ncalls + 1
    /\ UNCHANGED <<mCanvasPaper, mCanvasInk, tctl, tnow, tcall, tsampled,
                   cmat, ccall, csolve>>

Return(m, cx, cy, d, rec, ok) == Returned(m, cx, cy, d, rec, ok) /\ wire' = NoWire

Call(op, a, ret, sent) == [op |-> op, a |-> a, ret |-> ret, sent |-> sent]

\* The record of a TftPutString call: it also keeps the byte g the call met
\* past the structure, the cursor it started from and its passes.
StringCall(a, g, cx, cy, log) ==
    [op |-> "putString", a |-> a, ret |-> 0, sent |-> <<>>,
     g |-> g, from |-> <<cx, cy>>, log |-> log]

ClearScreenBuffer ==
    CanCall /\ \E c \in ClearArgs :
      \E sgn \in EnumSigned :
        \E m \in {TftClearScreenBuffer(Mem, AsColorT(c[1], sgn), AsColorT(c[2], sgn),
                                          mCanvasPaper, mCanvasInk)} :
            Return(m, 0, 0, disp, Call("clear", c, 0, <<>>), TRUE)

SetCursor ==
    CanCall /\ \E c \in CursorArgs :
      \E m \in {Mem} :
        Return(m, c[1], c[2], disp, Call("setCursor", c, 0, <<>>), InText(c[1], c[2]))

PutPixel ==
    CanCall /\ \E p \in PixelArgs :
      \E m \in {TftPutPixel(Mem, p[1], p[2], kBlue, kYellow)} :
        Return(m, mCursorX, mCursorY, disp,
               Call("putPixel", <<p[1], p[2], kBlue, kYellow>>, 0, <<>>), InPlane(p[1], p[2]))

PutLine ==
    CanCall /\ \E l \in LineArgs :
      \E m \in {TftPutLine(Mem, l[1], l[2], l[3], l[4])} :
        Return(m, mCursorX, mCursorY, disp,
               Call("putLine", l, 0, <<>>), InPlane(l[1], l[2]) /\ InPlane(l[3], l[4]))

PutChar ==
    CanCall /\ \E c \in CharArgs :
      \E m \in {TftPutChar(Mem, c[1], c[2], kWhite, kBlue, c[3])} :
        Return(m, mCursorX, mCursorY, disp,
               Call("putChar", <<c[1], c[2], kWhite, kBlue, c[3]>>, 0, <<>>),
               InText(c[1], c[2]))

PutColorAttr ==
    CanCall /\ \E c \in AttrArgs :
      \E m \in {TftPutColorAttr(Mem, c[1], c[2], c[3], c[4])} :
        Return(m, mCursorX, mCursorY, disp,
               Call("putColorAttr", c, 0, <<>>), InText(c[1], c[2]))

PutString ==
    CanCall /\ \E a \in StringArgs :
      \E g \in BeyondOf(a[3]) :
        \E s \in {TftPutString([m |-> Mem, cx |-> mCursorX, cy |-> mCursorY],
                               a[1], a[2], a[3], kBlack, kWhite, g)} :
            Return(s.m, s.cx, s.cy, disp,
                   StringCall(<<a[1], a[2], a[3], kBlack, kWhite>>, g, mCursorX, mCursorY,
                              s.log),
                   InZone(a[2], a[3]))

PutTextLabel ==
    CanCall /\ \E l \in LabelArgs :
      \E m \in {TftPutTextLabel(Mem, l[1], l[2], l[3], l[4])} :
        Return(m, mCursorX, mCursorY, disp,
               Call("putTextLabel", l, 0, <<>>),
               l[2] >= 0 /\ l[2] <= PIX_WIDTH - 8 /\ l[3] >= 0 /\ l[3] <= PIX_HEIGHT - 8)

ScrollVerticalZone ==
    CanCall /\ \E z \in ZoneArgs :
      \E g \in BeyondOf(z[2]) :
        \E m \in {TftScrollVerticalZone(Mem, z[1], z[2], g)} :
            Return(m, mCursorX, mCursorY, disp,
                   Call("scrollVertical", z, 0, <<>>), InZone(z[1], z[2]))

ClearRect8 ==
    CanCall /\ \E c \in CellArgs :
      \E m \in {TftClearRect8(Mem, c[1], c[2])} :
        Return(m, mCursorX, mCursorY, disp,
               Call("clearBlock", c, 0, <<>>), InText(c[1], c[2]))

FullScreenSelectiveWrite ==
    CanCall /\ \E n \in BudgetArgs :
      \E w \in {TftFullScreenSelectiveWrite([m |-> Mem, disp |-> disp], n)} :
        Return(w.f.m, mCursorX, mCursorY, w.f.disp,
               Call("selectiveFlush", <<n>>, w.ret, w.sent), TRUE)

FullScreenWrite ==
    CanCall /\ \E f \in {TftFullScreenWrite([m |-> Mem, disp |-> disp])} :
        Return(f.m, mCursorX, mCursorY, f.disp, Call("fullFlush", <<>>, 0, <<>>), TRUE)

\* main() up to TftFullScreenWrite: the static sScreen, the canvas colors,
\* TftClearScreenBuffer(kBlack, kRed) and the first full write.
Constructed ==
    With(TftClearScreenBuffer([pix |-> {}, attr |-> [i \in Blocks |-> 0], chg |-> {},
                               oob |-> FALSE],
                              kBlack, kRed, kBlack, kMagenta), LAMBDA c :
    [f  |-> TftFullScreenWrite([m |-> c, disp |-> [pix |-> {}, col |-> [i \in Blocks |-> 0]]]),
     cx |-> 0, cy |-> 0])

\* main() in random-lines mode after a pass of its loop: TestRandomLines has
\* drawn a line and called TftFullScreenSelectiveWrite(10000).
LineShown ==
    With(Constructed, LAMBDA c :
    With(TftPutLine(c.f.m, 0, 0, 9, 3), LAMBDA l :
    With(TftFullScreenSelectiveWrite([m |-> l, disp |-> c.f.disp], 10000), LAMBDA w :
    [f |-> w.f, cx |-> 0, cy |-> 0])))

\* ---- Calibration (msp2807_calibration.c) ----

Abs(v) == IF v >= 0 THEN v ELSE -v

RECURSIVE GCD(_, _)
GCD(a, b) == IF b = 0 THEN a ELSE GCD(b, a % b)

\* A float is kept as the exact fraction n / d in lowest terms with d > 0:
\* the inputs explored are small integers, and the rounding of the float
\* operations is left out. A division by zero gives NonFinite (an infinity
\* or a NaN), which every operation passes on.
NonFinite == [n |-> 0, d |-> 0]
Flt(n, d) ==
    IF d = 0 THEN NonFinite
    ELSE With(GCD(Abs(n), Abs(d)), LAMBDA g :
         [n |-> (IF d < 0 THEN -n ELSE n) \div g, d |-> Abs(d) \div g])
FInt(i) == [n |-> i, d |-> 1]
Finite(a) == a.d # 0
FAdd(a, b) == IF Finite(a) /\ Finite(b) THEN Flt(a.n * b.d + b.n * a.d, a.d * b.d) ELSE NonFinite
FSub(a, b) == IF Finite(a) /\ Finite(b) THEN Flt(a.n * b.d - b.n * a.d, a.d * b.d) ELSE NonFinite
FMul(a, b) == IF Finite(a) /\ Finite(b) THEN Flt(a.n * b.n, a.d * b.d) ELSE NonFinite
FDiv(a, b) == IF Finite(a) /\ Finite(b) THEN Flt(a.n * b.d, a.d * b.n) ELSE NonFinite

\* The test letting an exact zero pass.
BelowEps_ZeroPasses(a) ==
    /\ Finite(a)
    /\ a.n # 0
    /\ (Abs(a.n) <= 2 /\ Abs(a.n) * 1000000000 < a.d)

\* fabs(a) < 1e-9; a comparison with a NaN is false.
BelowEps(a) ==
    /\ Finite(a)
    /\ \/ a.n = 0
       \/ (Abs(a.n) <= 2 /\ Abs(a.n) * 1000000000 < a.d)

\* The conversion of a float to an integer type: toward zero.
FTrunc(a) == IF a.n >= 0 THEN a.n \div a.d ELSE -((-a.n) \div a.d)

RECURSIVE SumTo(_, _)
SumTo(v, n) == IF n = 0 THEN 0 ELSE v[n] + SumTo(v, n - 1)

\* a[], b[], c[], d[] for npoints == 3: sample X, sample Y, reference X,
\* reference Y of the three points (index 1..3 for the code's 0..2).
ExactSystem(ref, smp) ==
    [a |-> [i \in 1..3 |-> FInt(smp[i][1])], b |-> [i \in 1..3 |-> FInt(smp[i][2])],
     c |-> [i \in 1..3 |-> FInt(ref[i][1])], d |-> [i \in 1..3 |-> FInt(ref[i][2])],
     bad |-> FALSE]

\* NormalSystem failing only when both sums are below the threshold.
NormalSystem_BothSums(ref, smp, npoints) ==
    With([i \in 1..npoints |-> smp[i][1]], LAMBDA X :
    With([i \in 1..npoints |-> smp[i][2]], LAMBDA Y :
    With([i \in 1..npoints |-> ref[i][1]], LAMBDA RX :
    With([i \in 1..npoints |-> ref[i][2]], LAMBDA RY :
    With([a2 |-> FInt(SumTo(X, npoints)), b2 |-> FInt(SumTo(Y, npoints)),
          c2 |-> FInt(SumTo(RX, npoints)), d2 |-> FInt(SumTo(RY, npoints)),
          a0 |-> FInt(SumTo([i \in 1..npoints |-> X[i] * X[i]], npoints)),
          a1 |-> FInt(SumTo([i \in 1..npoints |-> X[i] * Y[i]], npoints)),
          b1 |-> FInt(SumTo([i \in 1..npoints |-> Y[i] * Y[i]], npoints)),
          c0 |-> FInt(SumTo([i \in 1..npoints |-> X[i] * RX[i]], npoints)),
          c1 |-> FInt(SumTo([i \in 1..npoints |-> Y[i] * RX[i]], npoints)),
          d0 |-> FInt(SumTo([i \in 1..npoints |-> X[i] * RY[i]], npoints)),
          d1 |-> FInt(SumTo([i \in 1..npoints |-> Y[i] * RY[i]], npoints)),
          fnpointsM1 |-> FDiv(FInt(1), FInt(npoints))], LAMBDA s :
    IF BelowEps(s.a2) /\ BelowEps(s.b2)
    THEN [a |-> <<>>, b |-> <<>>, c |-> <<>>, d |-> <<>>, bad |-> TRUE]
    ELSE [a |-> <<FDiv(s.a0, s.a2), FDiv(s.a1, s.b2), FMul(s.a2, s.fnpointsM1)>>,
          b |-> <<FDiv(s.a1, s.a2), FDiv(s.b1, s.b2), FMul(s.b2, s.fnpointsM1)>>,
          c |-> <<FDiv(s.c0, s.a2), FDiv(s.c1, s.b2), FMul(s.c2, s.fnpointsM1)>>,
          d |-> <<FDiv(s.d0, s.a2), FDiv(s.d1, s.b2), FMul(s.d2, s.fnpointsM1)>>,
          bad |-> FALSE])))))

\* a[], b[], c[], d[] for npoints > 3: the accumulated sums, the test of
\* a[2] and b[2], the divisions by them and the means.
NormalSystem(ref, smp, npoints) ==
    With([i \in 1..npoints |-> smp[i][1]], LAMBDA X :
    With([i \in 1..npoints |-> smp[i][2]], LAMBDA Y :
    With([i \in 1..npoints |-> ref[i][1]], LAMBDA RX :
    With([i \in 1..npoints |-> ref[i][2]], LAMBDA RY :
    With([a2 |-> FInt(SumTo(X, npoints)), b2 |-> FInt(SumTo(Y, npoints)),
          c2 |-> FInt(SumTo(RX, npoints)), d2 |-> FInt(SumTo(RY, npoints)),
          a0 |-> FInt(SumTo([i \in 1..npoints |-> X[i] * X[i]], npoints)),
          a1 |-> FInt(SumTo([i \in 1..npoints |-> X[i] * Y[i]], npoints)),
          b1 |-> FInt(SumTo([i \in 1..npoints |-> Y[i] * Y[i]], npoints)),
          c0 |-> FInt(SumTo([i \in 1..npoints |-> X[i] * RX[i]], npoints)),
          c1 |-> FInt(SumTo([i \in 1..npoints |-> Y[i] * RX[i]], npoints)),
          d0 |-> FInt(SumTo([i \in 1..npoints |-> X[i] * RY[i]], npoints)),
          d1 |-> FInt(SumTo([i \in 1..npoints |-> Y[i] * RY[i]], npoints)),
          fnpointsM1 |-> FDiv(FInt(1), FInt(npoints))], LAMBDA s :
    IF BelowEps(s.a2) \/ BelowEps(s.b2)
    THEN [a |-> <<>>, b |-> <<>>, c |-> <<>>, d |-> <<>>, bad |-> TRUE]
    ELSE [a |-> <<FDiv(s.a0, s.a2), FDiv(s.a1, s.b2), FMul(s.a2, s.fnpointsM1)>>,
          b |-> <<FDiv(s.a1, s.a2), FDiv(s.b1, s.b2), FMul(s.b2, s.fnpointsM1)>>,
          c |-> <<FDiv(s.c0, s.a2), FDiv(s.c1, s.b2), FMul(s.c2, s.fnpointsM1)>>,
          d |-> <<FDiv(s.d0, s.a2), FDiv(s.d1, s.b2), FMul(s.d2, s.fnpointsM1)>>,
          bad |-> FALSE])))))

\* k = (a[0]-a[2])*(b[1]-b[2])-(a[1]-a[2])*(b[0]-b[2])
Determinant(a, b) ==
    FSub(FMul(FSub(a[1], a[3]), FSub(b[2], b[3])), FMul(FSub(a[2], a[3]), FSub(b[1], b[3])))

\* The three coefficients of one axis, c being c[] for X and d[] for Y.
AxisCoeffs(a, b, c, kM1) ==
    <<FMul(FSub(FMul(FSub(c[1], c[3]), FSub(b[2], b[3])),
                FMul(FSub(c[2], c[3]), FSub(b[1], b[3]))), kM1),
      FMul(FSub(FMul(FSub(c[2], c[3]), FSub(a[1], a[3])),
                FMul(FSub(c[1], c[3]), FSub(a[2], a[3]))), kM1),
      FMul(FAdd(FAdd(FMul(b[1], FSub(FMul(a[3], c[2]), FMul(a[2], c[3]))),
                     FMul(b[2], FSub(FMul(a[1], c[3]), FMul(a[3], c[1])))),
                FMul(b[3], FSub(FMul(a[2], c[1]), FMul(a[1], c[2])))), kM1)>>

CoeffNames == {"KX1", "KX2", "KX3", "KY1", "KY2", "KY3"}

\* CalculateCalibrationMat clearing the matrix when it fails.
CalculateCalibrationMat_ClearsOnFailure(ref, smp, npoints, mat) ==
    IF npoints < 3 THEN [ret |-> -1, mat |-> mat, wrote |-> {}]
    ELSE
      With(IF npoints = 3 THEN ExactSystem(ref, smp)
           ELSE NormalSystem(ref, smp, npoints), LAMBDA s :
      IF s.bad THEN [ret |-> -2, mat |-> mat, wrote |-> {}]
      ELSE
        With(Determinant(s.a, s.b), LAMBDA k :
        IF BelowEps(k)
        THEN [ret |-> -3, mat |-> [f \in CoeffNames |-> FInt(0)], wrote |-> CoeffNames]
        ELSE
          With(FDiv(FInt(1), k), LAMBDA kM1 :
          With(AxisCoeffs(s.a, s.b, s.c, kM1), LAMBDA KX :
          With(AxisCoeffs(s.a, s.b, s.d, kM1), LAMBDA KY :
          [ret |-> npoints,
           mat |-> [KX1 |-> KX[1], KX2 |-> KX[2], KX3 |-> KX[3],
                    KY1 |-> KY[1], KY2 |-> KY[2], KY3 |-> KY[3]],
           wrote |-> CoeffNames])))))

\* CalculateCalibrationMat(pReferencePoint, pSamplePoint, npoints, pcmat):
\* ref and smp are the npoints pairs of the two arrays, mat what *pcmat
\* holds. The result has the return value, *pcmat and the fields written.
CalculateCalibrationMat(ref, smp, npoints, mat) ==
    IF npoints < 3 THEN [ret |-> -1, mat |-> mat, wrote |-> {}]
    ELSE
      With(IF npoints = 3 THEN ExactSystem(ref, smp)
           ELSE NormalSystem(ref, smp, npoints), LAMBDA s :
      IF s.bad THEN [ret |-> -2, mat |-> mat, wrote |-> {}]
      ELSE
        With(Determinant(s.a, s.b), LAMBDA k :
        IF BelowEps(k) THEN [ret |-> -3, mat |-> mat, wrote |-> {}]
        ELSE
          With(FDiv(FInt(1), k), LAMBDA kM1 :
          With(AxisCoeffs(s.a, s.b, s.c, kM1), LAMBDA KX :
          With(AxisCoeffs(s.a, s.b, s.d, kM1), LAMBDA KY :
          [ret |-> npoints,
           mat |-> [KX1 |-> KX[1], KX2 |-> KX[2], KX3 |-> KX[3],
                    KY1 |-> KY[1], KY2 |-> KY[2], KY3 |-> KY[3]],
           wrote |-> CoeffNames])))))

\* (int16_t)(d1024 * K1 * (float)x + d1024 * K2 * (float)y + K3 + .5f)
MapAxis(K1, K2, K3, x, y) ==
    FTrunc(FAdd(FAdd(FAdd(FMul(FMul(Flt(1, 1024), K1), FInt(x)),
                          FMul(FMul(Flt(1, 1024), K2), FInt(y))), K3), Flt(1, 2)))

\* TouchTransformCoords(pcmat, Px, Py): *Px is stored first, and the
\* expression for *Py reads *Px again.
TouchTransformCoords(mat, Px, Py) ==
    With(MapAxis(mat.KX1, mat.KX2, mat.KX3, Px, Py), LAMBDA x :
    <<x, MapAxis(mat.KY1, mat.KY2, mat.KY3, x, Py)>>)

\* ---- The touch sampler (msp2807_touch.c) ----

\* The press line is pulled up and the controller drives it low while the
\* panel is touched: CheckTouch samples when gpio_get returns false.
Pressed(kb_ispressed) == ~kb_ispressed

\* Exceeds with >= in place of >.
Exceeds_Inclusive(now, tm, thr) ==
    IF thr >= 0
    THEN now < tm \/ now - tm >= thr
    ELSE now < tm /\ tm - now <= -thr

\* ktm64_now - mTmOfLastTouch > thr, as the code compares it: the difference
\* is a uint64_t that wraps when the stored time is ahead of the timer, and
\* the int threshold is converted to uint64_t.
Exceeds(now, tm, thr) ==
    IF thr >= 0
    THEN now < tm \/ now - tm > thr
    ELSE now < tm /\ tm - now < -thr

\* v << 14
Shl14(v) == v * Pow2(14)

\* The least and the greatest int.
IntMin == -2147483647 - 1
IntMax == 2147483647

\* a + b and a - b in an int: a sum past either end comes back from the other.
Add32(a, b) ==
    IF a >= 0 /\ b >= 0 /\ a > IntMax - b THEN (a + IntMin) + (b + IntMin)
    ELSE IF a < 0 /\ b < 0 /\ a < IntMin - b THEN (a - IntMin) + (b - IntMin)
    ELSE a + b
Sub32(a, b) == IF b = IntMin THEN Add32(Add32(a, IntMax), 1) ELSE Add32(a, -b)

\* What a build makes of a shift by the width of an int or more, which the
\* language leaves undefined: the shifter takes the count as it is and shifts
\* every bit out, or it takes the count modulo 32.
ShiftBuilds == {"whole", "modulo"}
ShiftBuildsOf(beta) == IF beta >= 32 THEN ShiftBuilds ELSE {"whole"}
ShiftCount(k, build) == IF k < 32 \/ build = "whole" THEN k ELSE k % 32

\* 1 << k
Shl1(k, build) ==
    With(ShiftCount(k, build), LAMBDA n :
    IF n >= 32 THEN 0 ELSE IF n = 31 THEN IntMin ELSE Pow2(n))

\* v >> k, arithmetic for a negative v
Shr(v, k, build) ==
    With(ShiftCount(k, build), LAMBDA n :
    IF n >= 31 THEN (IF v < 0 THEN -1 ELSE 0) ELSE v \div Pow2(n))

\* The filter with a shift that rounds a negative value toward zero.
FilterStep_Truncating(f, raw, beta, build) ==
    With(Shl14(raw) - f + Pow2(beta - 1), LAMBDA n :
    f + (IF n >= 0 THEN n \div Pow2(beta) ELSE -((-n) \div Pow2(beta))))

\* The filter without its rounding term.
FilterStep_NoRounding(f, raw, beta, build) == f + ((Shl14(raw) - f) \div Pow2(beta))

\* f += ((raw << 14) - f + (1 << (beta - 1))) >> beta, the shift of a negative
\* int being arithmetic in the build.
FilterStep(f, raw, beta, build) ==
    Add32(f, Shr(Add32(Sub32(Shl14(raw), f), Shl1(beta - 1, build)), beta, build))

\* TouchReadRegisters on s = [c, io]: the two SPI reads and the flag.
TouchReadRegisters(s, regs) ==
    [c  |-> [s.c EXCEPT !.mX = regs[1], !.mY = regs[2], !.mIsProcessed = TRUE],
     io |-> Append(s.io, "regs")]

\* CheckTouch reading the press line before it tests the configuration.
CheckTouch_LineFirst(c, null, kb_ispressed, now, regs, build) ==
    IF null THEN [c |-> c, ret |-> -1, io |-> <<>>]
    ELSE IF ~(c.mpHWConfig /\ c.mkBetaShft > 0) THEN [c |-> c, ret |-> -2, io |-> <<"gpio">>]
    ELSE IF kb_ispressed THEN [c |-> c, ret |-> 1, io |-> <<"gpio">>]
    ELSE [c |-> c, ret |-> 0, io |-> <<"gpio", "timer">>]

\* CheckTouch testing the min-flick time against the time stored on entry.
CheckTouch_StaleTime(c, null, kb_ispressed, now, regs, build) ==
    IF null THEN [c |-> c, ret |-> -1, io |-> <<>>]
    ELSE IF ~(c.mpHWConfig /\ c.mkBetaShft > 0) THEN [c |-> c, ret |-> -2, io |-> <<>>]
    ELSE IF kb_ispressed THEN [c |-> c, ret |-> 1, io |-> <<"gpio">>]
    ELSE
      With([c |-> c, io |-> <<"gpio", "timer">>], LAMBDA s0 :
      With(IF Exceeds(now, s0.c.mTmOfLastTouch, s0.c.mkTmLongFlick)
           THEN With(TouchReadRegisters(s0, regs), LAMBDA r :
                [r EXCEPT !.c.mTmOfLastTouch = now,
                          !.c.mXf = Shl14(r.c.mX), !.c.mYf = Shl14(r.c.mY)])
           ELSE s0, LAMBDA s1 :
      With(IF Exceeds(now, s0.c.mTmOfLastTouch, s1.c.mkTmMinFlick)
           THEN With(TouchReadRegisters(s1, regs), LAMBDA r :
                [r EXCEPT !.c.mTmOfLastTouch = now,
                          !.c.mXf = FilterStep(r.c.mXf, r.c.mX, r.c.mkBetaShft, build),
                          !.c.mYf = FilterStep(r.c.mYf, r.c.mY, r.c.mkBetaShft, build)])
           ELSE s1, LAMBDA s2 :
      [c |-> s2.c, ret |-> 0, io |-> s2.io])))

\* CheckTouch(pcontrol): null is pcontrol == NULL, kb_ispressed what gpio_get
\* returns, now the timer, regs what the controller answers if asked and
\* build what the build makes of an undefined shift. The
\* result has the control structure, the return value and the reads made.
CheckTouch(c, null, kb_ispressed, now, regs, build) ==
    IF null THEN [c |-> c, ret |-> -1, io |-> <<>>]
    ELSE IF ~(c.mpHWConfig /\ c.mkBetaShft > 0) THEN [c |-> c, ret |-> -2, io |-> <<>>]
    ELSE IF kb_ispressed THEN [c |-> c, ret |-> 1, io |-> <<"gpio">>]
    ELSE
      With([c |-> c, io |-> <<"gpio", "timer">>], LAMBDA s0 :
      With(IF Exceeds(now, s0.c.mTmOfLastTouch, s0.c.mkTmLongFlick)
           THEN With(TouchReadRegisters(s0, regs), LAMBDA r :
                [r EXCEPT !.c.mTmOfLastTouch = now,
                          !.c.mXf = Shl14(r.c.mX), !.c.mYf = Shl14(r.c.mY)])
           ELSE s0, LAMBDA s1 :
      With(IF Exceeds(now, s1.c.mTmOfLastTouch, s1.c.mkTmMinFlick)
           THEN With(TouchReadRegisters(s1, regs), LAMBDA r :
                [r EXCEPT !.c.mTmOfLastTouch = now,
                          !.c.mXf = FilterStep(r.c.mXf, r.c.mX, r.c.mkBetaShft, build),
                          !.c.mYf = FilterStep(r.c.mYf, r.c.mY, r.c.mkBetaShft, build)])
           ELSE s1, LAMBDA s2 :
      [c |-> s2.c, ret |-> 0, io |-> s2.io])))

\* What the automatic touch_config of main() may hold before TouchInitCtl.
\* mIsPressed and mZ are left out: no code reads or writes them.
StackJunk ==
    {[mpHWConfig |-> FALSE, mTmOfLastTouch |-> t, mIsProcessed |-> p,
      mX |-> j, mY |-> j, mXf |-> j, mYf |-> j,
      mkTmMinFlick |-> 0, mkTmLongFlick |-> 0, mkBetaShft |-> 0] :
        t \in {0, 4000000}, p \in BOOLEAN, j \in {0, 777}}

\* TouchInitCtl: its memset covers sizeof(pcontrol), the size of a pointer,
\* which is the first field only; the other fields keep what they held.
TouchInitCtl(c, hw, min_flick_us, long_press_us, beta) ==
    [c EXCEPT !.mpHWConfig = hw, !.mkTmMinFlick = min_flick_us,
              !.mkTmLongFlick = long_press_us, !.mkBetaShft = beta]

\* The arguments of TouchInitCtl: those of main(), then a zero beta and a
\* null hardware configuration, then a zero min-flick time, a min-flick time
\* above the long-press time, the smallest beta and a negative min-flick time.
TouchSetups == {<<TRUE, 1000, 50000, 5>>, <<TRUE, 1000, 50000, 0>>, <<FALSE, 1000, 50000, 5>>,
                <<TRUE, 0, 50000, 5>>, <<TRUE, 70000, 50000, 5>>, <<TRUE, 1000, 50000, 1>>,
                <<TRUE, -1, 50000, 5>>}
\* Microseconds between two polls: inside the min-flick window, between the
\* two thresholds, past the long-press threshold.
TickArgs == {500, 2000, 60000}
\* What the controller answers for X and Y.
RegArgs == {<<10, 120>>, <<200, 30>>}

\* No CheckTouch call was made yet.
NoTouchCall == [op |-> "none", null |-> FALSE, kb_ispressed |-> TRUE, ret |-> 0, io |-> <<>>]

TouchCall(null, kb_ispressed, ret, io) ==
    [op |-> "checkTouch", null |-> null, kb_ispressed |-> kb_ispressed, ret |-> ret, io |-> io]

\* The state after a step of the touch sampler; the screen is left alone.
TouchReturn(c, now, rec) ==
    /\ tctl' = c
    /\ tnow' = now
    /\ tcall' = rec
    /\ tsampled' = (IF \E k \in DOMAIN rec.io : rec.io[k] = "regs" THEN now ELSE tsampled)
    /\ ncalls' = ncalls + 1
    /\ UNCHANGED <<pix, attr, chg, oob, mCursorX, mCursorY, mCanvasPaper, mCanvasInk,
                   disp, last, wire, valid, cmat, ccall, csolve>>

\* One poll of the panel.
CheckTouchTick ==
    CanCall /\ \E kb \in BOOLEAN : \E dt \in TickArgs : \E regs \in RegArgs :
      \E build \in ShiftBuildsOf(tctl.mkBetaShft) :
      \E r \in {CheckTouch(tctl, FALSE, kb, tnow + dt, regs, build)} :
        TouchReturn(r.c, tnow + dt, TouchCall(FALSE, kb, r.ret, r.io))

\* CheckTouch(NULL).
CheckTouchNull ==
    CanCall /\ \E kb \in BOOLEAN : \E dt \in TickArgs : \E regs \in RegArgs :
      \E build \in ShiftBuildsOf(tctl.mkBetaShft) :
      \E r \in {CheckTouch(tctl, TRUE, kb, tnow + dt, regs, build)} :
        TouchReturn(r.c, tnow + dt, TouchCall(TRUE, kb, r.ret, r.io))

\* main() takes the sample: touch_config.mIsProcessed = false. What it draws
\* with the sample goes through the screen calls.
AcknowledgeSample ==
    /\ CanCall
    /\ tctl.mIsProcessed
    /\ TouchReturn([tctl EXCEPT !.mIsProcessed = FALSE], tnow, NoTouchCall)

\* The screen where main() enters its loop or has passed it once.
ScreenInit ==
    \E st \in {Constructed, LineShown} :
        /\ pix = st.f.m.pix
        /\ attr = st.f.m.attr
        /\ chg = st.f.m.chg
        /\ oob = FALSE
        /\ mCursorX = st.cx
        /\ mCursorY = st.cy
        /\ mCanvasPaper = kBlack
        /\ mCanvasInk = kMagenta
        /\ disp = st.f.disp
        /\ last = Call("init", <<>>, 0, <<>>)
        /\ wire = NoWire
        /\ valid = TRUE
        /\ ncalls = 0

\* What the automatic cmat of main() may hold before the solver is called.
UnsetMat == [f \in CoeffNames |-> FInt(0)]
MatJunk == {UnsetMat, [UnsetMat EXCEPT !.KX1 = FInt(1024), !.KY2 = FInt(-1024), !.KY3 = FInt(7)]}

\* No calibration call was made yet.
NoCalCall == [op |-> "none"]

\* The calibration matrix before CalculateCalibrationMat is called.
CalInit(ms) ==
    /\ cmat \in ms
    /\ ccall = NoCalCall
    /\ csolve = NoCalCall

\* The touch control structure after TouchInitCtl, from one of the states cs
\* the stack may have held.
TouchInit(cs, setups) ==
    /\ tctl \in {TouchInitCtl(c, a[1], a[2], a[3], a[4]) : c \in cs, a \in setups}
    /\ tnow = 0
    /\ tcall = NoTouchCall
    /\ tsampled = -1

\* The screen calls never read the touch control structure: they are explored
\* from one of its states, the sampler from all of them (SpecTouch).
Init == ScreenInit /\ CalInit({UnsetMat}) /\ TouchInit({CHOOSE c \in StackJunk : ~c.mIsProcessed /\ c.mX = 0 /\ c.mTmOfLastTouch = 0},
                                {<<TRUE, 1000, 50000, 5>>})

Next ==
    \/ ClearScreenBuffer
    \/ SetCursor
    \/ PutPixel
    \/ PutLine
    \/ PutChar
    \/ PutColorAttr
    \/ PutString
    \/ PutTextLabel
    \/ ScrollVerticalZone
    \/ ClearRect8
    \/ FullScreenSelectiveWrite
    \/ FullScreenWrite

Spec == Init /\ [][Next]_vars

\* ------------------------------------------------------------------------
\* The words on the SPI bus
\* ------------------------------------------------------------------------
\* Blocks written by a direct TftSymbolWrite, and pixel rows of a full write
\* whose ILI9341_WriteData is watched.
ProbeBlocks == {<<0, 0>>, <<1, 1>>, <<3, 1>>, <<29, 39>>}
ProbeLines == {0, 8, 9, PIX_HEIGHT - 1}

\* TftSymbolWrite called by the application; all its 64 words are watched.
SymbolWrite ==
    CanCall /\ \E c \in ProbeBlocks :
      \E f \in {TftSymbolWrite([m |-> Mem, disp |-> disp], c[1], c[2])} :
        /\ Returned(f.m, mCursorX, mCursorY, f.disp, Call("symbolWrite", c, 0, <<>>), TRUE)
        /\ wire' = [op |-> "symbol", at |-> c[1] + TEXT_WIDTH * c[2],
                    words |-> SymbolWords(Mem, c[1], c[2])]

\* TftFullScreenWrite; the ILI9341_WriteData of pixel row j is watched.
FullScreenWriteWatched ==
    CanCall /\ \E j \in ProbeLines :
      \E f \in {TftFullScreenWrite([m |-> Mem, disp |-> disp])} :
        /\ Returned(f.m, mCursorX, mCursorY, f.disp, Call("fullFlush", <<>>, 0, <<>>), TRUE)
        /\ wire' = [op |-> "line", at |-> j, words |-> LineWords(Mem, j)]

NextWire ==
    \/ PutPixel
    \/ PutChar
    \/ PutColorAttr
    \/ SymbolWrite
    \/ FullScreenWriteWatched

SpecWire == Init /\ [][NextWire]_vars

\* ---- The touch sampler polled, alone ----

InitTouch == ScreenInit /\ CalInit({UnsetMat}) /\ TouchInit(StackJunk, TouchSetups)

NextTouch ==
    \/ CheckTouchTick
    \/ CheckTouchNull
    \/ AcknowledgeSample

SpecTouch == InitTouch /\ [][NextTouch]_vars

\* ---- The filter fed a constant sample ----

\* The raw sample, the filtered value it meets and the beta of the filter.
HeldArgs == {0, 3}
FilteredArgs == {0, 777, -100, Shl14(3), Shl14(4)}
BetaArgs == {1, 2, 3}

\* The control structure after a sample raw was read, with filtered values
\* on either side of raw << 14.
InitFilter ==
    /\ ScreenInit
    /\ CalInit({UnsetMat})
    /\ \E raw \in HeldArgs : \E f \in FilteredArgs : \E beta \in BetaArgs :
         tctl = [mpHWConfig |-> TRUE, mTmOfLastTouch |-> 0, mIsProcessed |-> TRUE,
                 mX |-> raw, mY |-> raw, mXf |-> f, mYf |-> 2 * Shl14(raw) - f,
                 mkTmMinFlick |-> 1000, mkTmLongFlick |-> 50000, mkBetaShft |-> beta]
    /\ tnow = 0
    /\ tcall = NoTouchCall
    /\ tsampled = -1

\* One more poll, 2000 us later, the panel pressed and the controller
\* answering what it answered before.
FilterTick ==
    /\ ncalls < MaxUpdates
    /\ \E build \in ShiftBuildsOf(tctl.mkBetaShft) :
       \E r \in {CheckTouch(tctl, FALSE, FALSE, tnow + 2000, <<tctl.mX, tctl.mY>>, build)} :
         TouchReturn(r.c, tnow + 2000, TouchCall(FALSE, FALSE, r.ret, r.io))

SpecFilter == InitFilter /\ [][FilterTick]_vars

\* ---- The lines of the whole plane ----

\* Endpoints inside the plane: the diagonals, the longest vertical and
\* horizontal lines, a single point, a short, a shallow and a steep line and
\* one from the middle of the plane.
PlaneLineArgs == {<<0, 0, 239, 319>>, <<239, 319, 0, 0>>, <<0, 319, 239, 0>>,
                  <<0, 0, 0, 319>>, <<239, 7, 0, 7>>, <<5, 5, 5, 5>>,
                  <<0, 0, 9, 3>>, <<239, 0, 0, 1>>, <<120, 160, 0, 0>>,
                  <<1, 319, 0, 0>>}

\* The record of a TftPutLine call whose loop was watched: the passes it
\* made and whether it left by the break at (x1, y1).
LineCall(l, s) ==
    [op |-> "putLine", a |-> l, ret |-> 0, sent |-> <<>>,
     passes |-> LineCap - s.cnt + (IF s.done THEN 1 ELSE 0), reached |-> s.done]

PutLineWatched ==
    CanCall /\ \E l \in PlaneLineArgs :
      \E s \in {TftPutLineLoop(Mem, l[1], l[2], l[3], l[4])} :
        Return(s.m, mCursorX, mCursorY, disp, LineCall(l, s),
               InPlane(l[1], l[2]) /\ InPlane(l[3], l[4]))

SpecLine == Init /\ [][PutLineWatched]_vars

\* ---- The calibration solver and the coordinate mapper ----

\* <<reference points, sample points, npoints>>: too few points; three
\* points mapped by the identity, by a swap of the axes, by (2x+1, 3y) and by
\* (x-3, 2-y); three identical points; three points on a line; four points
\* whose X add up to zero; four identical points, with and without a zero
\* coordinate; four corners of a square; five identical points.
CalArgs ==
    {<< <<<<0, 0>>, <<2, 0>>>>, <<<<1, 1>>, <<3, 1>>>>, 2 >>,
     << <<<<0, 0>>, <<4, 0>>, <<0, 4>>>>, <<<<0, 0>>, <<4, 0>>, <<0, 4>>>>, 3 >>,
     << <<<<1, 1>>, <<1, 3>>, <<2, 1>>>>, <<<<1, 1>>, <<3, 1>>, <<1, 2>>>>, 3 >>,
     << <<<<3, 3>>, <<7, 3>>, <<3, 6>>>>, <<<<1, 1>>, <<3, 1>>, <<1, 2>>>>, 3 >>,
     << <<<<-2, 1>>, <<0, 1>>, <<-2, 0>>>>, <<<<1, 1>>, <<3, 1>>, <<1, 2>>>>, 3 >>,
     << <<<<0, 0>>, <<4, 0>>, <<0, 4>>>>, <<<<2, 2>>, <<2, 2>>, <<2, 2>>>>, 3 >>,
     << <<<<0, 0>>, <<4, 0>>, <<0, 4>>>>, <<<<0, 0>>, <<0, 0>>, <<0, 0>>>>, 3 >>,
     << <<<<0, 0>>, <<4, 0>>, <<0, 4>>>>, <<<<0, 0>>, <<1, 1>>, <<2, 2>>>>, 3 >>,
     << <<<<0, 0>>, <<4, 0>>, <<0, 4>>, <<4, 4>>>>, <<<<-1, 1>>, <<1, 2>>, <<-2, 3>>, <<2, 4>>>>, 4 >>,
     << <<<<0, 0>>, <<4, 0>>, <<0, 4>>, <<4, 4>>>>, <<<<2, 3>>, <<2, 3>>, <<2, 3>>, <<2, 3>>>>, 4 >>,
     << <<<<0, 0>>, <<4, 0>>, <<0, 4>>, <<4, 4>>>>, <<<<0, 0>>, <<0, 0>>, <<0, 0>>, <<0, 0>>>>, 4 >>,
     << <<<<0, 0>>, <<4, 0>>, <<0, 4>>, <<4, 4>>>>, <<<<0, 3>>, <<0, 3>>, <<0, 3>>, <<0, 3>>>>, 4 >>,
     << <<<<0, 0>>, <<4, 0>>, <<0, 4>>, <<4, 4>>>>, <<<<1, 1>>, <<3, 1>>, <<1, 3>>, <<3, 3>>>>, 4 >>,
     << <<<<0, 0>>, <<4, 0>>, <<0, 4>>, <<4, 4>>, <<2, 2>>>>,
        <<<<2, 3>>, <<2, 3>>, <<2, 3>>, <<2, 3>>, <<2, 3>>>>, 5 >>}

\* Points given to the mapper besides the sample points of the last solve:
\* sub-pixel coordinates, 1024 to the unit, as main() forms them.
PointArgs == {<<0, 0>>, <<512, 1536>>, <<-1536, 2048>>, <<3, 1>>}

\* The sample points of the last solve that succeeded, scaled as main()
\* scales a raw sample: (mXf + 8) >> 4 with mXf = raw << 14.
ScaledSamples ==
    IF csolve.op = "solve"
    THEN {<<1024 * csolve.smp[i][1], 1024 * csolve.smp[i][2]>> : i \in 1..csolve.npoints}
    ELSE {}

SolveCall(ref, smp, npoints, r) ==
    [op |-> "solve", ref |-> ref, smp |-> smp, npoints |-> npoints,
     ret |-> r.ret, wrote |-> r.wrote]

\* The state after a calibration call; the screen and the sampler are left alone.
CalReturn(mat, rec) ==
    /\ cmat' = mat
    /\ ccall' = rec
    /\ csolve' = (IF rec.op = "solve" /\ rec.ret = rec.npoints THEN rec ELSE csolve)
    /\ ncalls' = ncalls + 1
    /\ UNCHANGED <<pix, attr, chg, oob, mCursorX, mCursorY, mCanvasPaper, mCanvasInk,
                   disp, last, wire, valid, tctl, tnow, tcall, tsampled>>

CalculateCalibration ==
    CanCall /\ \E a \in CalArgs :
      \E r \in {CalculateCalibrationMat(a[1], a[2], a[3], cmat)} :
        CalReturn(r.mat, SolveCall(a[1], a[2], a[3], r))

TransformCoords ==
    CanCall /\ \E p \in PointArgs \cup ScaledSamples :
      \E q \in {TouchTransformCoords(cmat, p[1], p[2])} :
        CalReturn(cmat, [op |-> "transform", Px |-> p[1], Py |-> p[2],
                         x |-> q[1], y |-> q[2]])

InitCal == ScreenInit /\ CalInit(MatJunk) /\ TouchInit({CHOOSE c \in StackJunk : ~c.mIsProcessed /\ c.mX = 0 /\ c.mTmOfLastTouch = 0},
                                                      {<<TRUE, 1000, 50000, 5>>})

NextCal ==
    \/ CalculateCalibration
    \/ TransformCoords

SpecCal == InitCal /\ [][NextCal]_vars


\* ------------------------------------------------------------------------
\* Scrolling a band of text rows
\* ------------------------------------------------------------------------
\* Bands 0 <= top_y <= bot_y <= TEXT_HEIGHT: empty ones, one-row ones, the
\* whole screen and bands that end at the last text row.
BandArgs == {<<0, 0>>, <<1, 1>>, <<39, 39>>, <<40, 40>>,
             <<0, 1>>, <<1, 3>>, <<37, 39>>, <<38, 40>>, <<0, 40>>}
InBand(top_y, bot_y) == 0 <= top_y /\ top_y <= bot_y /\ bot_y <= TEXT_HEIGHT

\* A memmove of count bytes to d from s reads bytes that are not part of the
\* structure.
ReadsBeyond(d, s, count) ==
    LET len == AsSizeT(d, count)
    IN  len > 0 /\ (s < 0 \/ s + len > MemEnd)

\* Whether one of the two memmove calls of TftScrollVerticalZone does so.
ScrollReadsBeyond(top_y, bot_y) ==
    LET ppixdest == top_y * TEXT_WIDTH * 8
        pattrdest == ColorAddr(top_y * TEXT_WIDTH)
    IN  \/ ReadsBeyond(ppixdest, ppixdest + PIX_BYTE_STRIDE * 8,
                       ((bot_y - top_y - 1) * 8) * PIX_BYTE_STRIDE)
        \/ ReadsBeyond(pattrdest, pattrdest + TEXT_WIDTH, (bot_y - top_y) * TEXT_WIDTH)

\* The record of a watched TftScrollVerticalZone call.
BandCall(z, g) ==
    [op |-> "scrollVertical", a |-> z, ret |-> 0, sent |-> <<>>, g |-> g,
     beyond |-> ScrollReadsBeyond(z[1], z[2])]

ScrollBand ==
    CanCall /\ \E z \in BandArgs :
      \E g \in BeyondOf(z[2]) :
        \E m \in {TftScrollVerticalZone(Mem, z[1], z[2], g)} :
            Return(m, mCursorX, mCursorY, disp, BandCall(z, g), InBand(z[1], z[2]))

\* Pixels and glyphs are drawn, bands are scrolled.
NextScroll ==
    \/ PutPixel
    \/ PutChar
    \/ ScrollBand

SpecScroll == Init /\ [][NextScroll]_vars

\* ------------------------------------------------------------------------
\* The SPI writes of a transfer, in the order the display receives them
\* ------------------------------------------------------------------------
ILI9341_CASET == 42
ILI9341_PASET == 43
ILI9341_RAMWR == 44

\* One spi_write_blocking call: the level of the D/C line while it runs, the
\* width in bytes of a value and the values.
\* ILI9341_SetCommand: one byte with D/C low.
ILI9341_SetCommand(cmd) == [dc |-> 0, width |-> 1, v |-> <<cmd>>]
\* ILI9341_CommandParam: one byte with D/C high.
ILI9341_CommandParam(data) == [dc |-> 1, width |-> 1, v |-> <<data>>]
\* A buffer of uint16_t with D/C high (ILI9341_WriteData, and the write of
\* sBuf in TftSymbolWrite).
ILI9341_WriteData(buffer) == [dc |-> 1, width |-> 2, v |-> buffer]

\* (v >> 8) & 0xFF
HighByte(v) == (v \div 256) % 256
\* v & 0xFF
LowByte(v) == v % 256

\* ILI9341_SetOutWriting with the row-range command sent first.
ILI9341_SetOutWriting_PageFirst(start_col, end_col, start_page, end_page) ==
    <<ILI9341_SetCommand(ILI9341_PASET),
      ILI9341_CommandParam(HighByte(start_page)), ILI9341_CommandParam(LowByte(start_page)),
      ILI9341_CommandParam(HighByte(end_page)), ILI9341_CommandParam(LowByte(end_page)),
      ILI9341_SetCommand(ILI9341_CASET),
      ILI9341_CommandParam(HighByte(start_col)), ILI9341_CommandParam(LowByte(start_col)),
      ILI9341_CommandParam(HighByte(end_col)), ILI9341_CommandParam(LowByte(end_col)),
      ILI9341_SetCommand(ILI9341_RAMWR)>>

ILI9341_SetOutWriting(start_col, end_col, start_page, end_page) ==
    <<ILI9341_SetCommand(ILI9341_CASET),
      ILI9341_CommandParam(HighByte(start_col)), ILI9341_CommandParam(LowByte(start_col)),
      ILI9341_CommandParam(HighByte(end_col)), ILI9341_CommandParam(LowByte(end_col)),
      ILI9341_SetCommand(ILI9341_PASET),
      ILI9341_CommandParam(HighByte(start_page)), ILI9341_CommandParam(LowByte(start_page)),
      ILI9341_CommandParam(HighByte(end_page)), ILI9341_CommandParam(LowByte(end_page)),
      ILI9341_SetCommand(ILI9341_RAMWR)>>

\* The writes of TftSymbolWrite: the region of the block, then sBuf once for
\* each of its rows j = 0..7.
SymbolBus(m, sym_x, sym_y) ==
    LET pix_tl_x == sym_x * 8
        pix_tl_y == sym_y * 8
    IN  With(SymbolWords(m, sym_x, sym_y), LAMBDA words :
        ILI9341_SetOutWriting(pix_tl_x, pix_tl_x + 7, pix_tl_y, pix_tl_y + 7)
          \o [j \in 1..8 |-> ILI9341_WriteData(SubSeq(words, 8 * j - 7, 8 * j))])

\* The writes of TftFullScreenWrite: the whole plane as region, then sBufLine
\* once for each pixel row j = 0..PIX_HEIGHT-1.
FullScreenBus(m) ==
    ILI9341_SetOutWriting(0, PIX_WIDTH - 1, 0, PIX_HEIGHT - 1)
      \o [j \in 1..PIX_HEIGHT |-> ILI9341_WriteData(LineWords(m, j - 1))]

\* The writes of TftFullScreenSelectiveWrite: those of TftSymbolWrite for the
\* blocks it sent, in the order it sent them.
RECURSIVE SelectiveBus(_, _)
SelectiveBus(m, sent) ==
    IF sent = <<>> THEN <<>>
    ELSE SymbolBus(m, Head(sent) % TEXT_WIDTH, Head(sent) \div TEXT_WIDTH)
           \o SelectiveBus(m, Tail(sent))

\* The bus as a call left it.
Bus(events) == [op |-> "bus", at |-> 0, words |-> <<>>, events |-> events]

SymbolWriteBus ==
    CanCall /\ \E c \in ProbeBlocks :
      \E f \in {TftSymbolWrite([m |-> Mem, disp |-> disp], c[1], c[2])} :
        /\ Returned(f.m, mCursorX, mCursorY, f.disp, Call("symbolWrite", c, 0, <<>>), TRUE)
        /\ wire' = Bus(SymbolBus(Mem, c[1], c[2]))

FullScreenWriteBus ==
    CanCall /\ \E f \in {TftFullScreenWrite([m |-> Mem, disp |-> disp])} :
        /\ Returned(f.m, mCursorX, mCursorY, f.disp, Call("fullFlush", <<>>, 0, <<>>), TRUE)
        /\ wire' = Bus(FullScreenBus(Mem))

SelectiveWriteBus ==
    CanCall /\ \E n \in BudgetArgs :
      \E w \in {TftFullScreenSelectiveWrite([m |-> Mem, disp |-> disp], n)} :
        /\ Returned(w.f.m, mCursorX, mCursorY, w.f.disp,
                    Call("selectiveFlush", <<n>>, w.ret, w.sent), TRUE)
        /\ wire' = Bus(SelectiveBus(Mem, w.sent))

NextBus ==
    \/ PutLine
    \/ PutChar
    \/ SymbolWriteBus
    \/ FullScreenWriteBus
    \/ SelectiveWriteBus

SpecBus == Init /\ [][NextBus]_vars

\* ------------------------------------------------------------------------
\* A caller that draws, then writes selectively until the write is complete
\* ------------------------------------------------------------------------
\* Budgets nblock_max >= 1 of such a caller.
FlushBudgets == {1, 2, 3, 10000}

\* The caller has begun to write, and its last write returned 1.
Flushing == last.op = "selectiveFlush"
Complete == Flushing /\ last.ret = 1

\* The record of the nth write of the caller; first is the number of changed
\* blocks its first write met.
FlushCall(n, w, first, nth) ==
    [op |-> "selectiveFlush", a |-> <<n>>, ret |-> w.ret, sent |-> w.sent,
     first |-> first, nth |-> nth]

\* Drawing ends with the first write.
DrawFirst ==
    /\ ~Flushing
    /\ (PutLine \/ PutChar \/ PutString)

\* The next TftFullScreenSelectiveWrite of the caller, with the budget of its
\* first one.
FlushAgain ==
    /\ valid /\ ~Complete
    /\ (IF Flushing THEN last.nth ELSE 0) < MaxFlushes
    /\ \E n \in (IF Flushing THEN {last.a[1]} ELSE FlushBudgets) :
         \E w \in {TftFullScreenSelectiveWrite([m |-> Mem, disp |-> disp], n)} :
            Return(w.f.m, mCursorX, mCursorY, w.f.disp,
                   FlushCall(n, w, IF Flushing THEN last.first ELSE Cardinality(chg),
                             IF Flushing THEN last.nth + 1 ELSE 1),
                   TRUE)

NextFlush ==
    \/ DrawFirst
    \/ FlushAgain

\* The caller's loop goes on: a write that can be made is made.
SpecFlush == Init /\ [][NextFlush]_vars /\ WF_vars(FlushAgain)

\* ------------------------------------------------------------------------
\* The loop of main(): draw, write selectively, again and again
\* ------------------------------------------------------------------------
\* Pixels the loop draws, in a low, a middle and the last block, and the
\* budgets of its writes.
RedrawArgs == {<<9, 8>>, <<100, 100>>, <<239, 319>>}
RedrawBudgets == {1, 2, 10000}

\* The state after a call of the loop; the passes of the loop are not counted.
Looped(m, d, rec) ==
    /\ pix' = m.pix
    /\ attr' = m.attr
    /\ chg' = m.chg
    /\ oob' = m.oob
    /\ disp' = d
    /\ last' = rec
    /\ wire' = NoWire
    /\ UNCHANGED <<mCursorX, mCursorY, mCanvasPaper, mCanvasInk, tctl, tnow, tcall,
                   tsampled, cmat, ccall, csolve, valid, ncalls>>

\* TftPutPixel in the loop.
Redraw ==
    \E p \in RedrawArgs :
      \E m \in {TftPutPixel(Mem, p[1], p[2], kBlack, kYellow)} :
        Looped(m, disp, Call("putPixel", <<p[1], p[2], kBlack, kYellow>>, 0, <<>>))

\* TftFullScreenSelectiveWrite in the loop.
FlushBetween ==
    \E n \in RedrawBudgets :
      \E w \in {TftFullScreenSelectiveWrite([m |-> Mem, disp |-> disp], n)} :
        Looped(w.f.m, w.f.disp, Call("selectiveFlush", <<n>>, w.ret, w.sent))

NextRedraw ==
    \/ Redraw
    \/ FlushBetween

\* The loop never ends, so the selective write is called again and again;
\* what is drawn between two writes is left open.
SpecRedraw == Init /\ [][NextRedraw]_vars /\ WF_vars(FlushBetween)

\* ---- The filter of the touch sampler at the ends of its ranges ----

\* The betas of main(), the smallest one, the largest one that shifts by less
\* than the width of an int, and the next one.
BetaRange == {1, 5, 31, 32}
\* What the controller answers: one byte for X and one for Y.
ByteArgs == {<<0, 255>>, <<255, 0>>, <<10, 120>>}
\* Polls inside and past the long-press window.
RangeTickArgs == {2000, 60000}

InitRange ==
    /\ ScreenInit
    /\ CalInit({UnsetMat})
    /\ TouchInit(StackJunk, {<<TRUE, 1000, 50000, beta>> : beta \in BetaRange})

\* One poll of the pressed panel.
RangeTick ==
    CanCall /\ \E dt \in RangeTickArgs : \E regs \in ByteArgs :
      \E build \in ShiftBuildsOf(tctl.mkBetaShft) :
      \E r \in {CheckTouch(tctl, FALSE, FALSE, tnow + dt, regs, build)} :
        TouchReturn(r.c, tnow + dt, TouchCall(FALSE, FALSE, r.ret, r.io))

SpecRange == InitRange /\ [][RangeTick]_vars

\* ---- CheckTouch run from a periodic interrupt, main() taking the samples ----

\* Where main() is in the part of its loop that takes a sample: at the test
\* of mIsProcessed, at the read of mXf, at the read of mYf, at the drawing
\* calls or at the store mIsProcessed = false.  x and y are its two locals,
\* xAt and yAt the times of the samples they were read from.
MainAt(pc, x, y, xAt, yAt) ==
    [op |-> "main", a |-> <<>>, ret |-> 0, sent |-> <<>>,
     pc |-> pc, x |-> x, y |-> y, xAt |-> xAt, yAt |-> yAt]
MainPc == IF last.op = "main" THEN last.pc ELSE "test"

\* A statement of main() that touches neither the buffers nor the sampler.
MainStep(rec) ==
    /\ last' = rec
    /\ UNCHANGED <<pix, attr, chg, oob, mCursorX, mCursorY, mCanvasPaper, mCanvasInk,
                   disp, wire, tctl, tnow, tcall, tsampled, cmat, ccall, csolve,
                   valid, ncalls>>

\* if(touch_config.mIsProcessed)
TestFlag ==
    /\ MainPc = "test" /\ tctl.mIsProcessed
    /\ MainStep(MainAt("readX", 0, 0, -1, -1))

\* int32_t x = (touch_config.mXf + 8) >> 4
ReadXf ==
    /\ MainPc = "readX"
    /\ MainStep(MainAt("readY", (tctl.mXf + 8) \div 16, 0, tsampled, -1))

\* int32_t y = (touch_config.mYf + 8) >> 4
ReadYf ==
    /\ MainPc = "readY"
    /\ MainStep(MainAt("draw", last.x, (tctl.mYf + 8) \div 16, last.xAt, tsampled))

\* TouchTransformCoords, TftPutPixel and TftFullScreenSelectiveWrite(10000),
\* in a pass of the loop that prints nothing (led_state % 128 is not 0).
DrawSample ==
    /\ MainPc = "draw"
    /\ \E q \in {TouchTransformCoords(cmat, last.x, last.y)} :
       \E m \in {TftPutPixel(Mem, q[1], q[2], kBlack, kYellow)} :
       \E w \in {TftFullScreenSelectiveWrite([m |-> m, disp |-> disp], 10000)} :
          /\ pix' = w.f.m.pix
          /\ attr' = w.f.m.attr
          /\ chg' = w.f.m.chg
          /\ oob' = w.f.m.oob
          /\ disp' = w.f.disp
          /\ last' = MainAt("clear", q[1], q[2], last.xAt, last.yAt)
    /\ UNCHANGED <<mCursorX, mCursorY, mCanvasPaper, mCanvasInk, wire, tctl, tnow,
                   tcall, tsampled, cmat, ccall, csolve, valid, ncalls>>

\* touch_config.mIsProcessed = false
ClearFlag ==
    /\ MainPc = "clear"
    /\ tctl' = [tctl EXCEPT !.mIsProcessed = FALSE]
    /\ last' = MainAt("test", last.x, last.y, last.xAt, last.yAt)
    /\ UNCHANGED <<pix, attr, chg, oob, mCursorX, mCursorY, mCanvasPaper, mCanvasInk,
                   disp, wire, tnow, tcall, tsampled, cmat, ccall, csolve,
                   valid, ncalls>>

\* The calibration main() would have with reference points equal to the
\* sample points, and the control structure with its flag clear.
InitIsr ==
    /\ ScreenInit
    /\ CalInit({CalculateCalibrationMat(<<<<0, 0>>, <<4, 0>>, <<0, 4>>>>,
                                        <<<<0, 0>>, <<4, 0>>, <<0, 4>>>>, 3, UnsetMat).mat})
    /\ TouchInit({c \in StackJunk : ~c.mIsProcessed /\ c.mTmOfLastTouch = 0},
                 {<<TRUE, 1000, 50000, 5>>})

\* The interrupt runs CheckTouch to its end between any two statements of
\* main().
NextIsr ==
    \/ CheckTouchTick
    \/ TestFlag
    \/ ReadXf
    \/ ReadYf
    \/ DrawSample
    \/ ClearFlag

SpecIsr == InitIsr /\ [][NextIsr]_vars

\* ------------------------------------------------------------------------
\* Properties
\* ------------------------------------------------------------------------
\* Block of pixel (x, y) and of text cell (x, y).
BlockAt(x, y) == (x \div 8) + TEXT_WIDTH * (y \div 8)
CellAt(x, y) == x + TEXT_WIDTH * y
\* The pixel bits of the text rows top .. bot-1.
BandBits(top, bot) == (top * 8 * PIX_WIDTH) .. (bot * 8 * PIX_WIDTH - 1)
RangeOf(seq) == {seq[i] : i \in 1..Len(seq)}
Ascending(seq) == \A i \in 1..(Len(seq) - 1) : seq[i] < seq[i + 1]

\* The step leaves both buffers as they were and stores nowhere else.
MemoryUntouched == pix' = pix /\ attr' = attr /\ chg' = chg /\ oob' = oob
CursorUntouched == mCursorX' = mCursorX /\ mCursorY' = mCursorY

\* Every block whose changed flag is clear shows on the display what the
\* buffers hold for it.
Coherent ==
    /\ \A n \in (pix \ disp.pix) \cup (disp.pix \ pix) : BlockOfBit(n) \in chg
    /\ \A b \in Blocks \ chg : ColorsOf(attr[b]) = disp.col[b]

\* C1: display coherence.  After any sequence of in-range calls that starts
\* from a cleared and fully written screen, every block whose changed flag is
\* clear has the pixel bits and the ink/paper colors last sent for it.
C1_Coherence == valid => Coherent

\* What C2 requires of one call.
C2_Step ==
    /\ (last'.op = "putPixel" /\ InPlane(last'.a[1], last'.a[2]))
          => BlockAt(last'.a[1], last'.a[2]) \in chg'
    /\ (last'.op = "selectiveFlush" /\ last'.a[1] > TEXT_CHARCOUNT)
          => (chg' = {} /\ last'.ret = 1)
    /\ (last.op = "selectiveFlush" /\ last.a[1] > TEXT_CHARCOUNT
            /\ last'.op = "selectiveFlush")
          => (last'.sent = <<>> /\ last'.ret = 1)

\* C2: dirty-flag round trip.  After TftPutPixel at an in-range (x, y) the
\* containing block's flag is set; after TftFullScreenSelectiveWrite with a
\* budget above the number of blocks no flag is set and the call returns 1;
\* a selective write that directly follows such a write sends no block and
\* returns 1.
C2_RoundTrip == [][C2_Step]_vars

\* A pixel was set, and the unbounded selective write that followed sent its
\* block, cleared every flag and returned 1.
C2_Witness ==
    /\ last.op = "selectiveFlush" /\ last.a = <<10000>>
    /\ (9 + 8 * PIX_WIDTH) \in pix
    /\ BlockAt(9, 8) \in RangeOf(last.sent)
    /\ chg = {} /\ last.ret = 1

\* C3: budget bound.  For every budget maxBlocks >= 0, zero included, one
\* TftFullScreenSelectiveWrite(maxBlocks) sends at most maxBlocks blocks.
C3_BudgetBound == last.op = "selectiveFlush" => Len(last.sent) <= last.a[1]

\* C4: TftFullScreenSelectiveWrite returns 1 only if no block of the whole
\* buffer has its changed flag set when it returns.
C4_CompleteMeansClean == (last.op = "selectiveFlush" /\ last.ret = 1) => chg = {}

\* A selective write that sent blocks and returned 1.
C4_Witness ==
    last.op = "selectiveFlush" /\ last.ret = 1 /\ Len(last.sent) >= 2 /\ last.a[1] > 0

\* What C5 requires of one call.
C5_Step ==
    (last'.op = "selectiveFlush" /\ last'.a[1] >= 1) =>
        LET sent == last'.sent
            S == RangeOf(sent)
        IN  /\ Len(sent) = Min2(Cardinality(chg), last'.a[1])
            /\ Ascending(sent)
            /\ S \subseteq chg
            /\ \A b \in chg \ S : \A c \in S : c < b
            /\ chg' = chg \ S
            /\ pix' = pix
            /\ \A b \in Blocks : ColorsOf(attr'[b]) = ColorsOf(attr[b])
            /\ CursorUntouched

\* C5: for maxBlocks >= 1 and D changed blocks at entry, the selective write
\* sends exactly the first min(D, maxBlocks) changed blocks in ascending
\* row-major order, clears the flags of exactly those, sends no block whose
\* flag was clear, and leaves the pixels, all colors, the cursor and the
\* other flags as they were.
C5_FlushExact == [][C5_Step]_vars

\* A selective write with budget 2 that sent two blocks and left others
\* changed.
C5_Witness ==
    last.op = "selectiveFlush" /\ last.a = <<2>> /\ Len(last.sent) = 2 /\ chg # {}

\* What C6 requires of one call.
C6_Step ==
    last'.op = "putPixel" =>
        LET x == last'.a[1]
            y == last'.a[2]
            b == BlockAt(x, y)
        IN  /\ CursorUntouched
            /\ IF InPlane(x, y)
               THEN /\ pix' = pix \cup {x + y * PIX_WIDTH}
                    /\ InkOf(attr'[b]) = last'.a[4] /\ PaperOf(attr'[b]) = last'.a[3]
                    /\ \A c \in Blocks \ {b} : attr'[c] = attr[c]
                    /\ chg' = chg \cup {b}
                    /\ oob' = oob
               ELSE MemoryUntouched

\* C6: TftPutPixel clipping.  With x < 0, y < 0, x >= 240 or y >= 320 the
\* pixels, every attribute byte and the cursor stay as they were; with (x, y)
\* in range exactly that pixel bit is set and the given ink and paper and the
\* changed flag go into exactly the containing block.
C6_PixelClip == [][C6_Step]_vars

\* The pixel in the last corner of the plane has been set.
C6_Witness ==
    /\ last.op = "putPixel" /\ last.a[1] = PIX_WIDTH - 1 /\ last.a[2] = PIX_HEIGHT - 1
    /\ (PIX_BITCOUNT - 1) \in pix
    /\ (TEXT_CHARCOUNT - 1) \in chg
    /\ ColorsOf(attr[TEXT_CHARCOUNT - 1]) = kYellow + 8 * kBlue

\* What C7 requires of one call.
C7_Step ==
    (last'.op = "putLine"
        /\ ~(InPlane(last'.a[1], last'.a[2]) /\ InPlane(last'.a[3], last'.a[4])))
      => MemoryUntouched

\* C7: TftPutLine clipping.  If an endpoint lies outside [0, 240) x [0, 320),
\* x = 240 and y = 320 included, the pixels and the attribute array stay as
\* they were and no memory outside them is stored to.
C7_LineClip == [][C7_Step]_vars

\* What C8 requires of one call.
C8_Step ==
    /\ (last'.op \in {"putChar", "clearBlock"} /\ ~InText(last'.a[1], last'.a[2]))
          => MemoryUntouched
    /\ (last'.op = "putTextLabel"
            /\ ~(last'.a[2] >= 0 /\ last'.a[2] <= PIX_WIDTH - 8
                 /\ last'.a[3] >= 0 /\ last'.a[3] <= PIX_HEIGHT - 8))
          => MemoryUntouched

\* C8: uniform clipping.  TftPutChar and TftClearRect8 with a cell outside
\* columns 0..29 or rows 0..39, and TftPutTextLabel with a negative or
\* too-large pixel position, write no pixel bit, no attribute byte and no
\* memory outside the buffers.
C8_UniformClip == [][C8_Step]_vars

\* What C9 requires of one call.
C9_Step ==
    (last'.op = "clearBlock" /\ InText(last'.a[1], last'.a[2])) =>
        LET b == CellAt(last'.a[1], last'.a[2])
        IN  /\ pix' = pix \ BlockBits(b)
            /\ ColorsOf(attr'[b]) = ColorsOf(attr[b])
            /\ b \in chg'

\* C9: TftClearRect8(x, y) on an in-range block clears exactly the 64 pixel
\* bits of the block, changes no pixel bit of another block, keeps the
\* block's ink and paper and sets its changed flag.
C9_ClearBlock == [][C9_Step]_vars

\* What C10 requires of one call.
C10_Step ==
    (last'.op = "scrollVertical" /\ InZone(last'.a[1], last'.a[2])) =>
        LET top == last'.a[1]
            bot == last'.a[2]
            shift == 8 * PIX_WIDTH
        IN  /\ pix' \cap BandBits(top, bot - 1)
                  = {n - shift : n \in pix \cap BandBits(top + 1, bot)}
            /\ \A b \in (top * TEXT_WIDTH) .. ((bot - 1) * TEXT_WIDTH - 1) :
                  ColorsOf(attr'[b]) = ColorsOf(attr[b + TEXT_WIDTH])
            /\ pix' \cap BandBits(bot - 1, bot) = {}
            /\ (top * TEXT_WIDTH) .. (bot * TEXT_WIDTH - 1) \subseteq chg'

\* C10: scroll shift.  For 0 <= top < bottom <= 40, after
\* TftScrollVerticalZone(top, bottom) every text row r, top <= r < bottom-1,
\* holds the pixel rows and the ink/paper colors text row r+1 held before,
\* text row bottom-1 has no pixel set, and every block of the rows
\* top..bottom-1 has its changed flag set.
C10_ScrollShift == [][C10_Step]_vars

\* Text rows 0..1 were scrolled and text row 0 now holds pixels, those of the
\* former text row 1, in that row's colors.
C10_Witness ==
    /\ last.op = "scrollVertical" /\ last.a = <<0, 2>>
    /\ pix \cap BandBits(0, 1) # {}
    /\ pix \cap BandBits(1, 2) = {}
    /\ \E b \in 0 .. (TEXT_WIDTH - 1) : ColorsOf(attr[b]) # kRed + 8 * kBlack


\* What C11 requires of one call.
C11_Step ==
    (last'.op = "scrollVertical" /\ last'.a[1] < last'.a[2] /\ last'.a[2] <= TEXT_HEIGHT
        /\ last'.a[1] >= 0) =>
        LET bot == last'.a[2]
        IN  /\ pix' \cap BandBits(bot - 1, bot) = {}
            /\ \A b \in ((bot - 1) * TEXT_WIDTH) .. (bot * TEXT_WIDTH - 1) :
                  /\ InkOf(attr'[b]) = mCanvasInk
                  /\ PaperOf(attr'[b]) = mCanvasPaper

\* C11: after TftScrollVerticalZone(top, bottom), top < bottom <= 40, the
\* freed text row bottom-1 has no pixel set and each of its blocks carries
\* the canvas paper and ink, whatever text row bottom held and whatever lies
\* past the attribute array.
C11_FreedRowDefault == [][C11_Step]_vars


\* What C12 requires of one call.
C12_Step ==
    last'.op = "clear" =>
        LET paper == IF last'.a[1] < 0 THEN mCanvasPaper ELSE last'.a[1]
            ink == IF last'.a[1] < 0 THEN mCanvasInk ELSE last'.a[2]
        IN  /\ pix' = {}
            /\ \A b \in Blocks : attr'[b] = ink + 8 * paper
            /\ chg' = Blocks
            /\ mCursorX' = 0 /\ mCursorY' = 0

\* C12: TftClearScreenBuffer(paper, ink) with colors in 0..7 leaves every
\* pixel bit 0, every attribute byte (ink, paper, changed = 1, flash = 0) and
\* the cursor at (0, 0); with a negative paper it uses the canvas paper and
\* ink instead of the arguments.
C12_Clear == [][C12_Step]_vars


\* The whole buffer went to the display as it is.
AllSent ==
    /\ disp'.pix = pix
    /\ \A b \in Blocks : disp'.col[b] = ColorsOf(attr[b])

\* What C13 requires of one call.
C13_Step == last'.op = "fullFlush" => (AllSent /\ chg' = chg)

\* C13: TftFullScreenWrite sends all 240x320 pixels whatever the changed
\* flags are and changes the changed flag of no block.
C13_FullFlushKeepsFlags == [][C13_Step]_vars

\* What C13, amended, requires of one call.
C13_AmendedStep ==
    last'.op = "fullFlush" =>
        /\ AllSent
        /\ chg' = {}
        /\ pix' = pix /\ attr' = attr /\ oob' = oob
        /\ CursorUntouched

\* C13, amended: TftFullScreenWrite sends all 240x320 pixels whatever the
\* changed flags are and clears the changed flag of every block; pixels,
\* colors and cursor stay as they were.
C13_FullFlushClearsFlags == [][C13_AmendedStep]_vars

\* A pixel was set, which flagged its block, and the full write that followed
\* sent it and left no flag.
C13_Witness ==
    /\ last.op = "fullFlush"
    /\ (9 + 8 * PIX_WIDTH) \in pix /\ (9 + 8 * PIX_WIDTH) \in disp.pix
    /\ disp.col[BlockAt(9, 8)] = kYellow + 8 * kBlue
    /\ chg = {}


\* The word the palette gives pixel bit n under the colors of its block.
Resolved(n) ==
    IF n \in pix THEN spPalette[InkOf(attr[BlockOfBit(n)]) + 1]
    ELSE spPalette[PaperOf(attr[BlockOfBit(n)]) + 1]

\* C14: color resolution.  In TftFullScreenWrite and in TftSymbolWrite (the
\* write of TftFullScreenSelectiveWrite) the 16-bit word sent for pixel
\* (x, y) is spPalette[ink] of the pixel's 8x8 block when the pixel bit is
\* set and spPalette[paper] of that block when it is clear.
C14_ColorResolution ==
    /\ wire.op = "symbol" =>
          /\ Len(wire.words) = 64
          /\ \A j \in 0..7 : \A i \in 0..7 :
                wire.words[8 * j + i + 1]
                  = Resolved(((wire.at \div TEXT_WIDTH) * 8 + j) * PIX_WIDTH
                             + (wire.at % TEXT_WIDTH) * 8 + i)
    /\ wire.op = "line" =>
          /\ Len(wire.words) = PIX_WIDTH
          /\ \A i \in 0..(PIX_WIDTH - 1) :
                wire.words[i + 1] = Resolved(wire.at * PIX_WIDTH + i)

\* The block of a glyph went out with words of its ink (blue) and of its
\* paper (white).
C14_Witness ==
    /\ wire.op = "symbol" /\ wire.at = CellAt(3, 1)
    /\ \E k \in 1..64 : wire.words[k] = spPalette[kBlue + 1]
    /\ \E k \in 1..64 : wire.words[k] = spPalette[kWhite + 1]


\* C15: TftPutString line wrap.  If the cursor column is in 0..29 on entry,
\* it is in 0..29 again after every character; a character drawn in column
\* 29 leaves the cursor in column 0 of the next text row, and '\n' or '\r'
\* leaves it in column 0 of the next text row and draws nothing.
C15_LineWrap ==
    (last.op = "putString" /\ last.from[1] \in 0..(TEXT_WIDTH - 1)) =>
        \A k \in 1..Len(last.log) :
            LET e == last.log[k]
            IN  /\ e.cx \in 0..(TEXT_WIDTH - 1)
                /\ (e.put /\ Printable(e.ch) /\ e.at[1] = TEXT_WIDTH - 1)
                      => (e.cx = 0 /\ e.cy = e.at[2] + 1)
                /\ e.ch \in {10, 13}
                      => (~e.put /\ e.cx = 0 /\ e.cy = e.at[2] + 1)

\* A string whose first character was drawn in column 29 and wrapped, and
\* whose next character was a line feed.
C15_Witness ==
    /\ last.op = "putString" /\ Len(last.log) >= 2
    /\ last.log[1].put /\ last.log[1].at[1] = TEXT_WIDTH - 1 /\ last.log[1].cx = 0
    /\ last.log[2].ch = 10 /\ last.log[2].cx = 0


\* C16: TftPutString scroll bound.  For every starting cursor row in 0..39
\* and every zone top_y < bot_y, no glyph is drawn in a text row >= bot_y: a
\* cursor that has reached or passed bot_y is back inside the zone before the
\* next glyph is drawn.
C16_ScrollBound ==
    (last.op = "putString" /\ last.from[2] \in 0..(TEXT_HEIGHT - 1)
        /\ last.a[2] < last.a[3]) =>
        \A k \in 1..Len(last.log) :
            (last.log[k].put /\ Printable(last.log[k].ch))
                => last.log[k].at[2] < last.a[3]


\* The characters of str the drawing calls accept.
Accepted(str, feeds) ==
    SelectSeq(str, LAMBDA ch : Printable(ch) \/ (feeds /\ ch \in {10, 13}))

\* What C17 requires of one call.
C17_Step ==
    /\ (last'.op = "putChar" /\ ~Printable(last'.a[5]))
          => (MemoryUntouched /\ CursorUntouched)
    /\ last'.op = "putString" =>
          LET r == TftPutString([m |-> Mem, cx |-> mCursorX, cy |-> mCursorY],
                                Accepted(last'.a[1], TRUE), last'.a[2], last'.a[3],
                                last'.a[4], last'.a[5], last'.g)
          IN  /\ pix' = r.m.pix /\ attr' = r.m.attr /\ chg' = r.m.chg /\ oob' = r.m.oob
              /\ mCursorX' = r.cx /\ mCursorY' = r.cy
    /\ last'.op = "putTextLabel" =>
          LET r == TftPutTextLabel(Mem, Accepted(last'.a[1], FALSE), last'.a[2],
                                   last'.a[3], last'.a[4])
          IN  pix' = r.pix /\ attr' = r.attr /\ chg' = r.chg /\ oob' = r.oob

\* C17: a character outside 0x20..0x7E (other than '\n' and '\r' in
\* TftPutString) given to TftPutChar, TftPutString or TftPutTextLabel is a
\* no-op for that character: no pixel bit, attribute byte or cursor position
\* changes for it, it causes no wrap or scroll, and the printable characters
\* after it are drawn, i.e. the call does what it does for the string without
\* that character.
C17_RejectedCharNoOp == [][C17_Step]_vars


\* ---- The touch sampler's claims ----

\* The call just made was CheckTouch on a valid configuration.
ValidPoll ==
    tcall.op = "checkTouch" /\ ~tcall.null /\ tctl.mpHWConfig /\ tctl.mkBetaShft > 0

\* The call just made read the X and Y registers.
Sampled == \E k \in DOMAIN tcall.io : tcall.io[k] = "regs"

\* C18: on a valid configuration CheckTouch returns 0 exactly when it sampled
\* the X/Y registers in this tick, and 1 exactly when the panel is pressed
\* and no sample was taken.
C18_StatusCode ==
    ValidPoll =>
        /\ (tcall.ret = 0) <=> Sampled
        /\ (tcall.ret = 1) <=> (Pressed(tcall.kb_ispressed) /\ ~Sampled)


\* What C19 requires of one call.
C19_Step ==
    (tcall'.op = "checkTouch" /\ (tcall'.null \/ ~tctl.mpHWConfig \/ tctl.mkBetaShft <= 0)) =>
        /\ tcall'.ret = (IF tcall'.null THEN -1 ELSE -2)
        /\ tcall'.io = <<>>
        /\ tctl' = tctl

\* C19: CheckTouch on a null control structure returns -1, on a null hardware
\* configuration or a beta <= 0 it returns -2; in both cases it reads neither
\* the press line nor the timer nor the registers and changes no field.
C19_Misconfigured == [][C19_Step]_vars

\* A second call returned -2 for a zero beta on a structure whose flag was set.
C19_Witness ==
    /\ tcall.op = "checkTouch" /\ ~tcall.null /\ tcall.ret = -2
    /\ tctl.mpHWConfig /\ tctl.mkBetaShft = 0 /\ tctl.mIsProcessed
    /\ ncalls = 2


\* What C20 requires of one call.
C20_Step ==
    (/\ tcall'.op = "checkTouch" /\ ~tcall'.null
     /\ tctl.mpHWConfig /\ tctl.mkBetaShft > 0
     /\ ~Pressed(tcall'.kb_ispressed)) =>
        /\ ~tctl'.mIsProcessed
        /\ ~Sampled'

\* C20: when the press line says the panel is not pressed, CheckTouch sets
\* mIsProcessed to false and returns without reading the X/Y registers.
C20_NotPressedClearsFlag == [][C20_Step]_vars


\* The call being made is CheckTouch on a valid configuration with the panel
\* pressed.
PressedPoll ==
    /\ tcall'.op = "checkTouch" /\ ~tcall'.null
    /\ tctl.mpHWConfig /\ tctl.mkBetaShft > 0
    /\ Pressed(tcall'.kb_ispressed)

\* What C21 requires of one call.
C21_Step ==
    (/\ PressedPoll
     /\ Exceeds(tnow', tctl.mTmOfLastTouch, tctl.mkTmLongFlick)
     /\ tctl.mkTmMinFlick >= 0) =>
        /\ tcall'.io = <<"gpio", "timer", "regs">>
        /\ tctl'.mTmOfLastTouch = tnow'
        /\ tctl'.mXf = Shl14(tctl'.mX)
        /\ tctl'.mYf = Shl14(tctl'.mY)
        /\ tctl'.mIsProcessed

\* C21: when the panel is pressed and the time since the last touch exceeds
\* the long-press threshold, CheckTouch reads the registers exactly once,
\* stores the time and sets the filtered X and Y to raw << 14 with no filter
\* step in the same tick, whatever the non-negative min-flick threshold.
C21_Snap == [][C21_Step]_vars

\* A snap that replaced a filtered position different from raw << 14, with a
\* min-flick threshold of zero.
C21_Witness ==
    /\ tcall.op = "checkTouch" /\ tcall.io = <<"gpio", "timer", "regs">>
    /\ tctl.mkTmMinFlick = 0
    /\ tctl.mTmOfLastTouch = tnow /\ tnow = 60000
    /\ tctl.mX = 200 /\ tctl.mXf = Shl14(200) /\ tctl.mYf = Shl14(30)


\* What C22 requires of one call.
C22_Step ==
    (0 <= tctl.mkTmMinFlick /\ tctl.mkTmMinFlick <= tctl.mkTmLongFlick) =>
        /\ (/\ PressedPoll
            /\ tnow' >= tctl.mTmOfLastTouch
            /\ tnow' - tctl.mTmOfLastTouch <= tctl.mkTmMinFlick) =>
              /\ ~Sampled'
              /\ tctl'.mX = tctl.mX /\ tctl'.mY = tctl.mY
              /\ tctl'.mXf = tctl.mXf /\ tctl'.mYf = tctl.mYf
              /\ tctl'.mTmOfLastTouch = tctl.mTmOfLastTouch
              /\ tctl'.mIsProcessed = tctl.mIsProcessed
        /\ (tcall'.op = "checkTouch" /\ Sampled' /\ tsampled >= 0) =>
              tnow' - tsampled > tctl.mkTmMinFlick

\* C22: with 0 <= minFlick <= longPress, a tick in which the panel is pressed
\* and now - lastTouch <= minFlick reads no register and leaves the raw and
\* filtered X/Y, lastTouch and mIsProcessed unchanged; two ticks that read the
\* registers are always more than minFlick apart.
C22_Debounce == [][C22_Step]_vars

\* A pressed tick 500 us after a sample, inside the min-flick window of
\* main(), that read nothing.
C22_Witness ==
    /\ tcall.op = "checkTouch" /\ tcall.io = <<"gpio", "timer">>
    /\ tctl.mkTmMinFlick = 1000 /\ tctl.mkBetaShft = 5
    /\ tsampled >= 0 /\ tnow - tsampled = 500
    /\ tctl.mTmOfLastTouch = tsampled


\* The greatest integer q with q * 2^k <= n.
FloorShift(n, k) == IF n >= 0 THEN n \div Pow2(k) ELSE -((-n + Pow2(k) - 1) \div Pow2(k))

\* One filter update as C23 writes it.
Filtered(f, raw, beta) == f + FloorShift(raw * Pow2(14) - f + Pow2(beta - 1), beta)

\* What C23 requires of one call.
C23_Step ==
    (/\ PressedPoll
     /\ tnow' >= tctl.mTmOfLastTouch
     /\ tctl.mkTmMinFlick < tnow' - tctl.mTmOfLastTouch
     /\ tnow' - tctl.mTmOfLastTouch <= tctl.mkTmLongFlick) =>
        /\ tcall'.io = <<"gpio", "timer", "regs">>
        /\ tctl'.mTmOfLastTouch = tnow'
        /\ tctl'.mXf = Filtered(tctl.mXf, tctl'.mX, tctl.mkBetaShft)
        /\ tctl'.mYf = Filtered(tctl.mYf, tctl'.mY, tctl.mkBetaShft)

C23_AmendedStep ==
    (/\ PressedPoll
     /\ tctl.mkTmMinFlick >= 0
     /\ tnow' >= tctl.mTmOfLastTouch
     /\ tctl.mkTmMinFlick < tnow' - tctl.mTmOfLastTouch
     /\ tnow' - tctl.mTmOfLastTouch <= tctl.mkTmLongFlick) =>
        /\ tcall'.io = <<"gpio", "timer", "regs">>
        /\ tctl'.mTmOfLastTouch = tnow'
        /\ tctl'.mXf = Filtered(tctl.mXf, tctl'.mX, tctl.mkBetaShft)
        /\ tctl'.mYf = Filtered(tctl.mYf, tctl'.mY, tctl.mkBetaShft)

Gap(f, raw) == raw * Pow2(14) - f

\* An update took f to g for the sample raw: it came no farther from
\* raw << 14 and, unless it was already there, it moved.
Converging(f, g, raw) ==
    /\ Abs(Gap(g, raw)) <= Abs(Gap(f, raw))
    /\ (g = f) => Gap(f, raw) = 0

\* The call being made is a filter update with the sample of the call before.
HeldUpdate ==
    /\ tcall'.op = "checkTouch" /\ Sampled'
    /\ tctl'.mTmOfLastTouch - tctl.mTmOfLastTouch <= tctl.mkTmLongFlick
    /\ tctl'.mX = tctl.mX /\ tctl'.mY = tctl.mY

\* What C24 requires of one update.
C24_Step ==
    HeldUpdate =>
        /\ Converging(tctl.mXf, tctl'.mXf, tctl.mX)
        /\ Converging(tctl.mYf, tctl'.mYf, tctl.mY)

InDeadBand(d, beta) == -Pow2(beta - 1) <= d /\ d <= Pow2(beta - 1) - 1

\* An update took f to g for the sample raw: it stayed on the same side of
\* raw << 14, came no farther from it, and moved exactly when f was outside
\* the dead band.
Settling(f, g, raw, beta) ==
    /\ Gap(f, raw) >= 0 => (0 <= Gap(g, raw) /\ Gap(g, raw) <= Gap(f, raw))
    /\ Gap(f, raw) <= 0 => (Gap(f, raw) <= Gap(g, raw) /\ Gap(g, raw) <= 0)
    /\ (g = f) <=> InDeadBand(Gap(f, raw), beta)

\* What holds of one update.
C24_AmendedStep ==
    HeldUpdate =>
        /\ Settling(tctl.mXf, tctl'.mXf, tctl.mX, tctl.mkBetaShft)
        /\ Settling(tctl.mYf, tctl'.mYf, tctl.mY, tctl.mkBetaShft)

C25_Step ==
    (ccall'.op = "solve") =>
        /\ (ccall'.ret = ccall'.npoints) <=> (ccall'.wrote = CoeffNames)
        /\ (ccall'.ret # ccall'.npoints) =>
              /\ ccall'.ret \in {-1, -2, -3}
              /\ (ccall'.ret = -1) <=> (ccall'.npoints < 3)
              /\ ccall'.wrote = {}
              /\ cmat' = cmat

\* C25: CalculateCalibrationMat returns the point count exactly when it has
\* written all six coefficients; on every failure (-1 for fewer than 3
\* points, -2 or -3 for degenerate input) it returns a negative code and
\* leaves the output matrix unchanged.
C25_Atomic == [][C25_Step]_vars

\* A solve failed with -3 after one that had succeeded, and the matrix is
\* still the one of the success.
C25_Witness ==
    /\ ccall.op = "solve" /\ ccall.ret = -3 /\ ccall.npoints = 4
    /\ csolve.op = "solve" /\ csolve.npoints = 3
    /\ cmat.KX1 = FInt(2) /\ cmat.KX3 = FInt(1) /\ cmat.KY2 = FInt(3)


\* The X and the Y coordinates of the sample points of a solve call.
SampleX(call) == [i \in 1..call.npoints |-> call.smp[i][1]]
SampleY(call) == [i \in 1..call.npoints |-> call.smp[i][2]]
Squares(v, n) == [i \in 1..n |-> v[i] * v[i]]

\* C26: for more than 3 points the solver returns -2 exactly when the sum of
\* the squares of the sample X or of the sample Y coordinates is below the
\* threshold; samples that spread on both axes never yield -2.
C26_SumOfSquares ==
    (ccall.op = "solve" /\ ccall.npoints > 3) =>
        ((ccall.ret = -2) <=>
            \/ SumTo(Squares(SampleX(ccall), ccall.npoints), ccall.npoints) = 0
            \/ SumTo(Squares(SampleY(ccall), ccall.npoints), ccall.npoints) = 0)

\* C26 (amended): the solver returns -2 exactly when it is given more than 3
\* points and the sum of the sample X or of the sample Y coordinates is below
\* the threshold, which for integer samples means the sum is zero.
C26_PlainSum ==
    (ccall.op = "solve") =>
        ((ccall.ret = -2) <=>
            /\ ccall.npoints > 3
            /\ \/ SumTo(SampleX(ccall), ccall.npoints) = 0
               \/ SumTo(SampleY(ccall), ccall.npoints) = 0)

\* The X samples -1, 1, -2, 2 with Y samples 1, 2, 3, 4 were refused with -2.
C26_Witness ==
    /\ ccall.op = "solve" /\ ccall.npoints = 4 /\ ccall.ret = -2
    /\ SampleX(ccall) = <<-1, 1, -2, 2>>
    /\ SumTo(SampleY(ccall), 4) = 10


\* The sample points of a solve call are all the same point.
Identical(call) == \A i \in 1..call.npoints : call.smp[i] = call.smp[1]

MappedSample(i) ==
    /\ ccall.op = "transform" /\ csolve.op = "solve"
    /\ i \in 1..csolve.npoints
    /\ ccall.Px = 1024 * csolve.smp[i][1] /\ ccall.Py = 1024 * csolve.smp[i][2]

\* C28: after a solve with 3 non-collinear sample points and reference
\* points that are an exact affine image of them, transform applied to each
\* sample point gives the reference point on both axes within 0.5 unit.
C28_Exactness ==
    \A i \in 1..3 :
        (MappedSample(i) /\ csolve.npoints = 3) =>
            (ccall.x = csolve.ref[i][1] /\ ccall.y = csolve.ref[i][2])

\* The integer r is a nearest integer to the float a.
Nearest(r, a) == 2 * Abs(r * a.d - a.n) <= a.d

\* K1 * x / 1024 + K2 * y / 1024 + K3
Affine(K1, K2, K3, x, y) ==
    FAdd(FAdd(FMul(K1, Flt(x, 1024)), FMul(K2, Flt(y, 1024))), K3)

\* C29: applyTransform maps the two axes independently from the input point:
\* x' = round(KX1*x/1024 + KX2*y/1024 + KX3), y' = round(KY1*x/1024 +
\* KY2*y/1024 + KY3), both from the original x and y, rounding to the nearest
\* integer for negative as well as non-negative results.
C29_IndependentAxes ==
    (ccall.op = "transform") =>
        /\ Nearest(ccall.x, Affine(cmat.KX1, cmat.KX2, cmat.KX3, ccall.Px, ccall.Py))
        /\ Nearest(ccall.y, Affine(cmat.KY1, cmat.KY2, cmat.KY3, ccall.Px, ccall.Py))


\* ---- The line claim ----

\* What C30 requires of one call, l being its endpoints.
C30_Line(l) ==
    /\ last'.reached
    /\ last'.passes <= Max2(Abs(l[3] - l[1]), Abs(l[4] - l[2])) + 1
    /\ last'.passes <= LineCap
    /\ (l[1] + l[2] * PIX_WIDTH) \in pix'
    /\ (l[3] + l[4] * PIX_WIDTH) \in pix'
    /\ pix \subseteq pix'
    /\ \A n \in pix' \ pix :
          /\ Min2(l[1], l[3]) <= n % PIX_WIDTH /\ n % PIX_WIDTH <= Max2(l[1], l[3])
          /\ Min2(l[2], l[4]) <= n \div PIX_WIDTH /\ n \div PIX_WIDTH <= Max2(l[2], l[4])
    /\ ~oob'

C30_Step ==
    (/\ last'.op = "putLine" /\ "passes" \in DOMAIN last'
     /\ InPlane(last'.a[1], last'.a[2]) /\ InPlane(last'.a[3], last'.a[4])) =>
        C30_Line(last'.a)

\* C30: for endpoints with 0 <= x <= 239 and 0 <= y <= 319 the loop of
\* TftPutLine ends by reaching (x1, y1) after at most max(|x1-x0|, |y1-y0|) + 1
\* passes, having set both endpoint pixels and only pixels inside the
\* bounding box of the endpoints: the cap of 1000 passes truncates no such line.
C30_LineComplete == [][C30_Step]_vars

\* The diagonal of the plane was drawn in 320 passes.
C30_Witness ==
    /\ last.op = "putLine" /\ last.a = <<0, 0, 239, 319>>
    /\ last.reached /\ last.passes = 320
    /\ 0 \in pix /\ (PIX_BITCOUNT - 1) \in pix


\* The blocks of the text rows top .. bot-1.
BandBlocks(top, bot) == (top * TEXT_WIDTH) .. (bot * TEXT_WIDTH - 1)

\* C31: scroll frame.  For every 0 <= top <= bottom <= 40, the empty band
\* top = bottom included, TftScrollVerticalZone(top, bottom) changes no pixel
\* bit and no attribute byte of a text row outside [top, bottom), and neither
\* reads nor writes memory outside the two buffers.
C31_ScrollFrame ==
    [][(last'.op = "scrollVertical" /\ InBand(last'.a[1], last'.a[2])) =>
        LET top == last'.a[1]
            bot == last'.a[2]
        IN  /\ pix' \ BandBits(top, bot) = pix \ BandBits(top, bot)
            /\ \A b \in Blocks \ BandBlocks(top, bot) :
                  attr'[b] = attr[b] /\ (b \in chg' <=> b \in chg)
            /\ oob' = oob
            /\ ~last'.beyond]_vars


\* A command, a parameter byte, a burst of pixel values.
IsCommand(e, cmd) == e.dc = 0 /\ e.width = 1 /\ e.v = <<cmd>>
IsParam(e) == e.dc = 1 /\ e.width = 1 /\ Len(e.v) = 1 /\ e.v[1] \in 0..255
IsPixels(e) == e.dc = 1 /\ e.width = 2

\* The range two parameter bytes name.
Coord(hi, lo) == 256 * hi.v[1] + lo.v[1]

\* The values of the writes t[lo] .. t[hi], one after the other.
RECURSIVE Values(_, _, _)
Values(t, lo, hi) ==
    IF lo > hi THEN <<>>
    ELSE IF lo = hi THEN t[lo].v
    ELSE With((lo + hi) \div 2, LAMBDA mid : Values(t, lo, mid) \o Values(t, mid + 1, hi))

\* The pixel values of the bursts t[i], t[i+1], ... up to the next command.
Burst(t, i) ==
    LET next == {k \in i..Len(t) : t[k].dc = 0}
    IN  Values(t, i, IF next = {} THEN Len(t) ELSE Min(next) - 1)

\* t[i] starts a region write: the column range, the row range, the
\* memory-write command, then the pixels of the region row by row and nothing
\* else before the next command.
RegionWrite(t, i) ==
    /\ i + 10 <= Len(t)
    /\ IsCommand(t[i], ILI9341_CASET)
    /\ \A k \in 1..4 : IsParam(t[i + k])
    /\ IsCommand(t[i + 5], ILI9341_PASET)
    /\ \A k \in 6..9 : IsParam(t[i + k])
    /\ IsCommand(t[i + 10], ILI9341_RAMWR)
    /\ LET c0 == Coord(t[i + 1], t[i + 2])
           c1 == Coord(t[i + 3], t[i + 4])
           r0 == Coord(t[i + 6], t[i + 7])
           r1 == Coord(t[i + 8], t[i + 9])
           cols == c1 - c0 + 1
           rows == r1 - r0 + 1
       IN  With(Burst(t, i + 11), LAMBDA sentPixels :
           /\ \A k \in (i + 11) .. Len(t) :
                 (\A n \in (i + 11) .. k : t[n].dc = 1) => IsPixels(t[k])
           /\ cols > 0 /\ rows > 0
           /\ Len(sentPixels) = cols * rows
           /\ \A k \in 0 .. (cols * rows - 1) :
                 sentPixels[k + 1]
                   = Resolved((r0 + (k \div cols)) * PIX_WIDTH + c0 + (k % cols)))

\* C32: region-write protocol.  Every bulk pixel transfer, one 8x8 block of
\* the selective write or the whole plane of the full write, is preceded in
\* this order by the column-range command with 4 parameter bytes, the
\* row-range command with 4 parameter bytes and the memory-write command, and
\* is followed by exactly cols x rows 16-bit values (64 for a block, 76800
\* for the plane) in row-major order before any other command is issued.
C32_RegionProtocol ==
    wire.op = "bus" =>
        LET t == wire.events
            starts == {i \in 1..Len(t) : IsCommand(t[i], ILI9341_CASET)}
        IN  /\ \A i \in starts : RegionWrite(t, i)
            \* every write on the bus belongs to one of these region writes
            /\ \A k \in 1..Len(t) :
                  /\ t[k].dc = 0 => \E i \in starts : k \in {i, i + 5, i + 10}
                  /\ t[k].dc = 1 => \E i \in starts : i < k
            /\ last.op = "symbolWrite" =>
                  Cardinality(starts) = 1 /\ Len(Burst(t, 12)) = 64
            /\ last.op = "selectiveFlush" =>
                  /\ Cardinality(starts) = Len(last.sent)
                  /\ \A i \in starts : Len(Burst(t, i + 11)) = 64
            /\ last.op = "fullFlush" =>
                  Cardinality(starts) = 1 /\ Len(Burst(t, 12)) = PIX_WIDTH * PIX_HEIGHT

\* A selective write sent the two blocks of a line, each as a region write of
\* its own.
C32_Witness ==
    /\ wire.op = "bus" /\ last.op = "selectiveFlush" /\ Len(last.sent) = 2
    /\ Len(wire.events) = 2 * 19
    /\ IsCommand(wire.events[20], ILI9341_CASET)


\* What C33 requires of one call.
C33_Step ==
    (last'.op = "selectiveFlush" /\ last'.a[1] >= 1) =>
        /\ last'.ret = 0 =>
              (chg' \subseteq chg /\ Cardinality(chg \ chg') = last'.a[1])
        /\ last'.ret \in {0, 1}
        /\ last'.nth <= (last'.first \div last'.a[1]) + 1

\* C33: flush progress.  With a fixed budget maxBlocks >= 1, D changed blocks
\* and no drawing between the calls, repeated TftFullScreenSelectiveWrite
\* calls eventually return 1; every call that returns 0 has cleared exactly
\* maxBlocks changed flags, and 1 is returned no later than call number
\* floor(D / maxBlocks) + 1.
C33_FlushProgress == [][C33_Step]_vars /\ (Flushing ~> Complete)

\* A caller with budget 2 met five changed blocks or more and its third
\* write, or a later one, was the complete one.
C33_Witness ==
    Complete /\ last.a = <<2>> /\ last.first >= 5 /\ last.nth >= 3


\* What C34 requires of one call.
C34_Step ==
    (last'.op = "selectiveFlush" /\ last'.a[1] >= 1) =>
        /\ Cardinality(chg) <= last'.a[1] => (chg' = {} /\ last'.ret = 1)
        /\ last'.ret = 0 => chg' # {}

\* C34: if the number of changed blocks at entry is at most maxBlocks
\* (maxBlocks >= 1), TftFullScreenSelectiveWrite writes all of them and
\* returns 1; it returns 0 only when a changed block remains.
C34_CompleteWithinBudget == [][C34_Step]_vars

\* What the code gives for one call.
C34_AmendedStep ==
    (last'.op = "selectiveFlush" /\ last'.a[1] >= 1) =>
        /\ Cardinality(chg) < last'.a[1] => (chg' = {} /\ last'.ret = 1)
        /\ Cardinality(chg) = last'.a[1] => (chg' = {} /\ last'.ret = 0)
        /\ last'.ret = 0 => Len(last'.sent) = last'.a[1]
        /\ last'.ret = 1 => chg' = {}

\* C34, amended: with fewer changed blocks at entry than maxBlocks
\* (maxBlocks >= 1) the call writes all of them and returns 1; with exactly
\* maxBlocks of them it writes all of them and returns 0, although none
\* remains; 0 is returned only when the call has written maxBlocks blocks,
\* and 1 only when no changed block remains.
C34_CompleteBelowBudget == [][C34_AmendedStep]_vars

\* A write with budget 2 met exactly two changed blocks, sent both and
\* returned 0.
C34_Witness ==
    /\ last.op = "selectiveFlush" /\ last.a = <<2>> /\ last.nth = 1 /\ last.first = 2
    /\ last.ret = 0 /\ chg = {} /\ Len(last.sent) = 2


\* Block b was sent by the last selective write.
Transmitted(b) == last.op = "selectiveFlush" /\ b \in RangeOf(last.sent)

\* C35: no starvation.  If TftFullScreenSelectiveWrite(maxBlocks >= 1) is
\* called infinitely often while draw calls keep setting changed flags
\* between the calls, every block whose flag gets set is eventually sent: a
\* changed block with a high row-major index is not postponed forever by
\* lower blocks that are changed again and again.
C35_NoStarvation ==
    \A b \in {BlockAt(p[1], p[2]) : p \in RedrawArgs} : (b \in chg) ~> Transmitted(b)


\* C36: after TouchInitCtl returns, whatever the control structure held
\* before, it is fully initialised: mIsProcessed is false, mTmOfLastTouch is
\* 0, the raw and the filtered X and Y are 0, and the hardware pointer and
\* the three parameters are the arguments; so the first pass of the polling
\* loop consumes no sample that was not read from the device.
C36_InitialisedControl ==
    /\ ncalls = 0 =>
          /\ ~tctl.mIsProcessed
          /\ tctl.mTmOfLastTouch = 0
          /\ tctl.mX = 0 /\ tctl.mY = 0 /\ tctl.mXf = 0 /\ tctl.mYf = 0
          /\ <<tctl.mpHWConfig, tctl.mkTmMinFlick, tctl.mkTmLongFlick, tctl.mkBetaShft>>
                \in TouchSetups
    /\ (ncalls = 1 /\ tcall.op = "checkTouch" /\ tctl.mIsProcessed) => Sampled


\* Pixel column i of row j of a glyph whose top-left pixel is (x_pix, y_pix)
\* shows bit 7 - i of glyph byte j of character chr.
ShowsGlyph(pixset, chr, x_pix, y_pix) ==
    \A j \in 0..7 : \A i \in 0..7 :
        (((y_pix + j) * PIX_WIDTH + x_pix + i) \in pixset)
            <=> (BitOf(FontByte(chr - 32, j), 7 - i) = 1)

\* What C37 requires of one call.
C37_Step ==
    /\ (last'.op = "putChar" /\ InText(last'.a[1], last'.a[2]) /\ Printable(last'.a[5]))
          => ShowsGlyph(pix', last'.a[5], last'.a[1] * 8, last'.a[2] * 8)
    /\ (last'.op = "putTextLabel" /\ last'.a[4]
            /\ last'.a[2] >= 0 /\ last'.a[2] <= PIX_WIDTH - 8
            /\ last'.a[3] >= 0 /\ last'.a[3] <= PIX_HEIGHT - 8
            /\ \A s \in 1..Len(last'.a[1]) : Printable(last'.a[1][s]))
          => \A s \in 1..Min2(Len(last'.a[1]), (PIX_WIDTH - last'.a[2]) \div 8) :
                ShowsGlyph(pix', last'.a[1][s], last'.a[2] + 8 * (s - 1), last'.a[3])

\* C37: glyph rendering.  For a printable character TftPutChar, and
\* TftPutTextLabel with over = true, make pixel column i (0..7) of glyph row
\* j equal to bit 7 - i of glyph byte j: each of the eight bits of a glyph
\* row, the least significant one included, decides exactly one pixel of the
\* cell, and column 0 is set whenever the most significant bit is set.
C37_GlyphRendering == [][C37_Step]_vars


\* v lies between a and b, the ends included.
Between(a, v, b) == (a <= v /\ v <= b) \/ (b <= v /\ v <= a)
\* A filtered value inside the range of the samples, 0 .. 255 << 14.
InSampleRange(f) == 0 <= f /\ f <= 255 * Pow2(14)

\* The call being made samples and only updates the filter: the time since
\* the last sample is within the long-press time.
FilterUpdate ==
    /\ tcall'.op = "checkTouch" /\ Sampled'
    /\ tnow' >= tctl.mTmOfLastTouch
    /\ tnow' - tctl.mTmOfLastTouch <= tctl.mkTmLongFlick

\* What C38 requires of one call.
C38_Step ==
    (FilterUpdate /\ tctl.mkBetaShft >= 1 /\ tctl'.mX \in 0..255 /\ tctl'.mY \in 0..255) =>
        /\ Between(tctl.mXf, tctl'.mXf, Shl14(tctl'.mX))
        /\ Between(tctl.mYf, tctl'.mYf, Shl14(tctl'.mY))
        /\ InSampleRange(tctl.mXf) => InSampleRange(tctl'.mXf)
        /\ InSampleRange(tctl.mYf) => InSampleRange(tctl'.mYf)

\* C38: the filter never overshoots.  For every beta >= 1 and raw values in
\* 0..255 one filter step gives a value between the previous filtered value
\* and raw << 14, the ends included, so the distance to raw << 14 never
\* grows; and after a snap the filtered value stays in 0 .. 255 << 14 over
\* any sequence of samples, with no overflow of a 32-bit signed integer.
C38_NoOvershoot == [][C38_Step]_vars


\* What C39 requires of one step.
C39_Step ==
    /\ (MainPc = "readY" /\ MainPc' = "draw") => last'.xAt = last'.yAt
    /\ (MainPc = "clear" /\ MainPc' = "test") =>
          (tsampled = last.xAt /\ tsampled = last.yAt)

\* C39: if CheckTouch runs in a periodic interrupt handler that can preempt
\* the consume step of the main loop (read mXf and mYf, draw, then
\* mIsProcessed = false), no new-sample flag is lost: the store that clears
\* mIsProcessed never erases the flag of a sample whose position the loop has
\* not read, and each consumed pair (mXf, mYf) comes from one sample.
C39_NoLostSample == [][C39_Step]_vars

=============================================================================
